---------------------------- MODULE Spec2Model ----------------------------
(***************************************************************************)
(* A model of the frp server-side control session (server/control.go):     *)
(* the ControlManager index of Controls by run id, and one Control with    *)
(* its writer, reader, manager and stoper goroutines, its work-connection  *)
(* pool and its proxy registry.                                            *)
(***************************************************************************)
EXTENDS Integers, Sequences, FiniteSets, TLC

(***************************************************************************)
(* Part I.  ControlManager (control.go:50-89)                              *)
(***************************************************************************)

\* Number of Controls that log in (each calls Add once, Del at most once).
NumCtls == 3

Ctls == 1..NumCtls

\* The absent map entry / nil pointer.
Nil == 0

\* The run ids clients log in with.
RunIds == {"r1", "r2"}

\* The cleared run id Replaced leaves behind (control.go:290).
EmptyRunId == ""

VARIABLES
    ctlsByRunId,     \* ControlManager.ctlsByRunId: RunIds -> Ctls \cup {Nil}
    cmMu,            \* ControlManager.mu: Nil, or the Control whose call holds it
    loginRunId,      \* loginMsg.RunId of each Control
    cmRunId,         \* Control.runId of each Control
    cmAllStart,      \* allShutdown.Start() has been called on each Control
    replacedCalls,   \* how many times Replaced ran on each Control
    addPc,           \* position of each Control's Add call
    delPc,           \* position of each Control's Del call
    delRunId,        \* the runId argument of each Control's Del call
    addOrder,        \* the Controls in the order their Add took the lock
    delCount,        \* number of Del calls that took the lock
    lastGet          \* the latest GetById: <<runId, ctl, ok, Adds begun before it>>

cmVars == <<ctlsByRunId, cmMu, loginRunId, cmRunId, cmAllStart, replacedCalls,
            addPc, delPc, delRunId, addOrder, delCount, lastGet>>

\* NewControlManager, and NumCtls Controls built by NewControl with the run id
\* of their login message.
CMInit ==
    /\ ctlsByRunId = [r \in RunIds |-> Nil]
    /\ cmMu = Nil
    /\ loginRunId \in [Ctls -> RunIds]
    /\ cmRunId = loginRunId
    /\ cmAllStart = [c \in Ctls |-> FALSE]
    /\ replacedCalls = [c \in Ctls |-> 0]
    /\ addPc = [c \in Ctls |-> "idle"]
    /\ delPc = [c \in Ctls |-> "idle"]
    /\ delRunId = [c \in Ctls |-> "r1"]
    /\ addOrder = <<>>
    /\ delCount = 0
    /\ lastGet = <<"r1", Nil, FALSE, 0>>

\* Control.Replaced on Control old: clear runId, allShutdown.Start().
CMReplacedSkipped(old) ==
    /\ cmRunId' = cmRunId
    /\ cmAllStart' = cmAllStart
    /\ replacedCalls' = replacedCalls

CMReplaced(old) ==
    /\ cmRunId' = [cmRunId EXCEPT ![old] = EmptyRunId]
    /\ cmAllStart' = [cmAllStart EXCEPT ![old] = TRUE]
    /\ replacedCalls' = [replacedCalls EXCEPT ![old] = @ + 1]

\* cm.mu.Lock() of Add(loginRunId[c], c).
AddLock(c) ==
    /\ addPc[c] = "idle"
    /\ cmMu = Nil
    /\ cmMu' = c
    /\ addPc' = [addPc EXCEPT ![c] = "locked"]
    /\ addOrder' = Append(addOrder, c)
    /\ UNCHANGED <<ctlsByRunId, loginRunId, cmRunId, cmAllStart, replacedCalls,
                   delPc, delRunId, delCount, lastGet>>

\* The body of Add under the lock, and the deferred Unlock.
AddBody(c) ==
    /\ addPc[c] = "locked"
    /\ cmMu = c
    /\ LET runId == loginRunId[c]
           oldCtl == ctlsByRunId[runId]
       IN  /\ IF oldCtl # Nil
                 THEN CMReplaced(oldCtl)
                 ELSE UNCHANGED <<cmRunId, cmAllStart, replacedCalls>>
           /\ ctlsByRunId' = [ctlsByRunId EXCEPT ![runId] = c]
    /\ cmMu' = Nil
    /\ addPc' = [addPc EXCEPT ![c] = "done"]
    /\ UNCHANGED <<loginRunId, delPc, delRunId, addOrder, delCount, lastGet>>

\* cm.mu.Lock() of Del(r, c): issued for a Control whose Add has returned.
DelLock(c, r) ==
    /\ addPc[c] = "done"
    /\ delPc[c] = "idle"
    /\ cmMu = Nil
    /\ cmMu' = c
    /\ delPc' = [delPc EXCEPT ![c] = "locked"]
    /\ delRunId' = [delRunId EXCEPT ![c] = r]
    /\ delCount' = delCount + 1
    /\ UNCHANGED <<ctlsByRunId, loginRunId, cmRunId, cmAllStart, replacedCalls,
                   addPc, addOrder, lastGet>>

\* What Del(r, c) leaves in the map.
DelResultNoIdentityCheck(r, c) ==
    [ctlsByRunId EXCEPT ![r] = Nil]

DelResult(r, c) ==
    IF ctlsByRunId[r] # Nil /\ ctlsByRunId[r] = c
        THEN [ctlsByRunId EXCEPT ![r] = Nil]
        ELSE ctlsByRunId

\* The body of Del under the lock, and the deferred Unlock.
DelBody(c) ==
    /\ delPc[c] = "locked"
    /\ cmMu = c
    /\ ctlsByRunId' = DelResult(delRunId[c], c)
    /\ cmMu' = Nil
    /\ delPc' = [delPc EXCEPT ![c] = "done"]
    /\ UNCHANGED <<loginRunId, cmRunId, cmAllStart, replacedCalls, addPc,
                   delRunId, addOrder, delCount>>
    /\ UNCHANGED lastGet

\* GetById(r): the read lock is free when no writer holds mu.
GetById(r) ==
    /\ cmMu = Nil
    /\ lastGet' = <<r, ctlsByRunId[r], ctlsByRunId[r] # Nil, Len(addOrder)>>
    /\ UNCHANGED <<ctlsByRunId, cmMu, loginRunId, cmRunId, cmAllStart,
                   replacedCalls, addPc, delPc, delRunId, addOrder, delCount>>

(***************************************************************************)
(* Part II.  One Control (control.go:91-624)                               *)
(***************************************************************************)

\* Capacity of sendCh and of readCh in the model.  NewControl makes both with
\* capacity 10 (control.go:175-176); the model scales them down, the tasks
\* only ever distinguish empty, non-full and full.
SendChCap == 1
ReadChCap == 1

\* The slack of the work-connection pool over poolCount (control.go:177).
PoolSlack == 10

\* serverCfg.MaxPoolCount, serverCfg.HeartBeatTimeout (seconds) and the
\* positive value of serverCfg.MaxPortsPerClient the model runs with.
MaxPoolCount == 1
HeartBeatTimeout == 1
MaxPortsCfg == 2

\* time.Since(ctl.lastPing) is followed up to this value, one past the
\* values the heartbeat check and the claims tell apart.
SinceCap == HeartBeatTimeout + 2

\* The proxy names the client announces; every proxy uses one public port.
ProxyNames == {"a", "b"}
GetUsedPortsNum(name) == 1

\* Messages the client sends on the control connection (msg.NewProxy,
\* msg.CloseProxy, msg.Ping, and a kind the manager's switch does not list).
NewProxy(n) == [type |-> "NewProxy", name |-> n]
CloseProxy(n) == [type |-> "CloseProxy", name |-> n]
Ping == [type |-> "Ping", name |-> ""]
OtherMsg == [type |-> "Other", name |-> ""]
ClientMsgs ==
    {NewProxy(n) : n \in ProxyNames} \cup {CloseProxy(n) : n \in ProxyNames}
        \cup {Ping, OtherMsg}

\* Messages the server puts on sendCh (msg.ReqWorkConn, msg.NewProxyResp,
\* msg.Pong).
ReqWorkConn == [type |-> "ReqWorkConn", name |-> "", error |-> FALSE, addr |-> ""]
NewProxyRespUnnamed(n, e, a) == [type |-> "NewProxyResp", name |-> "", error |-> e, addr |-> a]

NewProxyResp(n, e, a) == [type |-> "NewProxyResp", name |-> n, error |-> e, addr |-> a]
PongWithoutError(e) == [type |-> "Pong", name |-> "", error |-> FALSE, addr |-> ""]

Pong(e) == [type |-> "Pong", name |-> "", error |-> e, addr |-> ""]
NoMsg == [type |-> "none"]

\* The listener address pxy.Run returns for a proxy.
RemoteAddr(n) == n

VARIABLES
    \* configuration and budgets of the environment
    poolCount,        \* Control.poolCount
    maxPortsPerClient,\* serverCfg.MaxPortsPerClient
    msgsLeft,         \* messages the client will still send
    connsLeft,        \* work connections the client will still dial
    callsLeft,        \* GetWorkConn calls the proxies will still make
    \* channels and the control connection
    sendCh, sendChClosed,
    readCh, readChClosed,
    workConnCh,       \* len(workConnCh): the connections are interchangeable
    workConnChClosed,
    connClosed,       \* ctl.conn.Close() has been called
    \* proxies
    proxies,          \* the keys of Control.proxies
    pxyManager,       \* names registered in the process-wide ProxyManager
    pxyRunning,       \* this Control's proxies that Run and were not Closed
    portsUsedNum,
    \* liveness timer
    sinceLastPing,    \* time.Since(ctl.lastPing) in seconds, saturating
    tickPending,      \* heartbeat.C holds a tick
    \* identity and latches
    runId,
    allStart, allDone, readerDone, writerDone, managerDone,
    \* positions of the tasks
    startPc, primerI,
    writerPc,
    readerPc, readerMsg,
    mgrPc, mgrOut, mgrReturn,
    stopPc,
    \* why the writer, the manager and the reader returned
    writerExit, mgrExit, readerExit,
    \* one GetWorkConn caller at a time
    gwPc, gwResult, gwReplenish, gwHit,
    \* the latest RegisterWorkConn call
    rwResult

chanVars == <<sendCh, sendChClosed, readCh, readChClosed, workConnCh,
              workConnChClosed, connClosed>>
pxyVars == <<proxies, pxyManager, pxyRunning, portsUsedNum>>
latchVars == <<allStart, allDone, readerDone, writerDone, managerDone>>
envVars == <<poolCount, maxPortsPerClient, msgsLeft, connsLeft, callsLeft>>
timeVars == <<sinceLastPing, tickPending>>
pcVars == <<startPc, primerI, writerPc, readerPc, readerMsg, mgrPc, mgrOut,
            mgrReturn, stopPc>>
gwVars == <<gwPc, gwResult, gwReplenish, gwHit>>
exitVars == <<writerExit, mgrExit, readerExit>>

ctlVars == <<chanVars, pxyVars, latchVars, envVars, timeVars, pcVars, gwVars,
             exitVars, runId, rwResult>>

\* The client-side Service (client/service.go), declared here so that the
\* steps of the Control can leave it alone; its steps are in Part III.
VARIABLES
    svcExit,          \* Service.exit: 0 means not exit
    svcCtl,           \* Service.ctl: the number of the installed ClientControl
    closedDone,       \* svr.ctl.ClosedDoneCh() is closed
    kcwPc,            \* position of keepControllerWorking
    delayTime,        \* seconds
    reconnectDelay,   \* seconds
    reconnectCounts,
    untilCutoff,      \* cutoffTime - time.Now() in seconds, -1 once it is past
    \* what the supervisor did, for the claims
    deathsInWindow,   \* session deaths handled since the last window reset
    fails,            \* failed logins in a row in the current reconnect
    outerSleep,       \* the sleep before the latest reconnect, seconds
    innerSleep,       \* the sleep after the latest failed login, seconds
    loginsSinceDone,  \* login attempts since the latest ClosedDone was taken
    deathsLeft        \* session deaths the environment will still cause

svcVars == <<svcExit, svcCtl, closedDone, kcwPc, delayTime, reconnectDelay,
             reconnectCounts, untilCutoff, deathsInWindow, fails, outerSleep,
             innerSleep, loginsSinceDone, deathsLeft>>

\* One call of GetUniqueId (utils/util): what the machine gives it and what
\* it returns; the function is in Part IV.
VARIABLES
    uidInterfaces,    \* net.Interfaces(): a sequence of [Name, HardwareAddr]
    uidOut,           \* the lines of the output of ls /sys/devices/virtual/net/
    uidGuarded,       \* the GetUniqueId that looks for "No such file or directory"
    uidResult         \* NoResult, or what the call returned

uidVars == <<uidInterfaces, uidOut, uidGuarded, uidResult>>

\* The adapter service that keeps the clients' status (control.go:390-400,
\* 471-507) and the Control that replaces this one; their steps are in
\* Part V.
VARIABLES
    adapterLog,       \* the status calls the adapter received for the client
    offlineSent,      \* this Control's stoper has made its /frp_update call
    newCtlPc,         \* position of the Control that replaces this one
    startWaits        \* the new Control is started after the old one's WaitClosed

adapterVars == <<adapterLog, offlineSent, newCtlPc, startWaits>>

vars == <<cmVars, ctlVars, svcVars, uidVars, adapterVars>>

Min(a, b) == IF a < b THEN a ELSE b

\* NewControl: the state of a Control built for a login message asking for
\* loginPoolCount pooled connections by a server whose configuration allows
\* maxPoolCount, with the environment's budgets.
NewControlWith(maxPoolCount, loginPoolCount, maxPorts, msgs, conns, calls) ==
    /\ poolCount = Min(loginPoolCount, maxPoolCount)
    /\ maxPortsPerClient = maxPorts
    /\ msgsLeft = msgs
    /\ connsLeft = conns
    /\ callsLeft = calls
    /\ sendCh = <<>> /\ sendChClosed = FALSE
    /\ readCh = <<>> /\ readChClosed = FALSE
    /\ workConnCh = 0 /\ workConnChClosed = FALSE
    /\ connClosed = FALSE
    /\ proxies = {} /\ pxyManager = {} /\ pxyRunning = {}
    /\ portsUsedNum = 0
    /\ sinceLastPing = 0
    /\ tickPending = FALSE
    /\ runId = "r1"
    /\ allStart = FALSE /\ allDone = FALSE
    /\ readerDone = FALSE /\ writerDone = FALSE /\ managerDone = FALSE
    /\ startPc = "begin" /\ primerI = 0
    /\ writerPc = "off"
    /\ readerPc = "off" /\ readerMsg = NoMsg
    /\ mgrPc = "off" /\ mgrOut = NoMsg /\ mgrReturn = FALSE
    /\ stopPc = "off"
    /\ writerExit = "none" /\ mgrExit = "none" /\ readerExit = "none"
    /\ gwPc = "idle" /\ gwResult = "none" /\ gwReplenish = 0 /\ gwHit = FALSE
    /\ rwResult = "none"

\* NewControl on the server of the other specifications, whose configuration
\* allows MaxPoolCount pooled connections.
NewControl(loginPoolCount, maxPorts, msgs, conns, calls) ==
    NewControlWith(MaxPoolCount, loginPoolCount, maxPorts, msgs, conns, calls)

(***************************************************************************)
(* Control.Start (control.go:195-212)                                      *)
(***************************************************************************)

\* Write the LoginResp and `go ctl.writer()`.
StartLaunchWriter ==
    /\ startPc = "begin"
    /\ startPc' = "primers"
    /\ writerPc' = "new"
    /\ UNCHANGED <<cmVars, svcVars, uidVars, adapterVars, exitVars, chanVars, pxyVars, latchVars, envVars, timeVars, gwVars,
                   runId, rwResult, primerI, readerPc, readerMsg, mgrPc,
                   mgrOut, mgrReturn, stopPc>>

\* One iteration of the primer loop: ctl.sendCh <- &msg.ReqWorkConn{}, which
\* blocks while sendCh is full.
StartPrimer ==
    /\ startPc = "primers"
    /\ primerI < poolCount
    /\ ~sendChClosed
    /\ Len(sendCh) < SendChCap
    /\ sendCh' = Append(sendCh, ReqWorkConn)
    /\ primerI' = primerI + 1
    /\ UNCHANGED <<cmVars, svcVars, uidVars, adapterVars, exitVars, sendChClosed, readCh, readChClosed, workConnCh,
                   workConnChClosed, connClosed, pxyVars, latchVars, envVars,
                   timeVars, gwVars, runId, rwResult, startPc, writerPc,
                   readerPc, readerMsg, mgrPc, mgrOut, mgrReturn, stopPc>>

\* `go ctl.manager()`, `go ctl.reader()`, `go ctl.stoper()`, and Start returns.
StartLaunchRest ==
    /\ startPc = "primers"
    /\ primerI = poolCount
    /\ startPc' = "done"
    /\ mgrPc' = "select"
    /\ readerPc' = "read"
    /\ stopPc' = "waitStart"
    /\ UNCHANGED <<cmVars, svcVars, uidVars, adapterVars, exitVars, chanVars, pxyVars, latchVars, envVars, timeVars, gwVars,
                   runId, rwResult, primerI, writerPc, readerMsg, mgrOut,
                   mgrReturn>>

(***************************************************************************)
(* Control.writer (control.go:294-323)                                     *)
(***************************************************************************)

\* crypto.NewWriter: on success enter the loop, on error allShutdown.Start()
\* and return.
WriterNew ==
    /\ writerPc = "new"
    /\ \E ok \in BOOLEAN :
          IF ok
              THEN /\ writerPc' = "loop"
                   /\ allStart' = allStart
                   /\ writerExit' = writerExit
              ELSE /\ writerPc' = "deferDone"
                   /\ allStart' = TRUE
                   /\ writerExit' = "error"
    /\ UNCHANGED <<cmVars, svcVars, uidVars, adapterVars, mgrExit, readerExit, chanVars, pxyVars, allDone, readerDone, writerDone,
                   managerDone, envVars, timeVars, gwVars, runId, rwResult,
                   startPc, primerI, readerPc, readerMsg, mgrPc, mgrOut,
                   mgrReturn, stopPc>>

\* One iteration of the loop: receive from sendCh; return when it is closed
\* and empty; otherwise msg.WriteMsg, returning on a write error.  A write on
\* a closed connection fails.
WriterLoop ==
    /\ writerPc = "loop"
    /\ IF sendCh # <<>>
          THEN /\ sendCh' = Tail(sendCh)
               /\ \E ok \in BOOLEAN :
                     /\ ok => ~connClosed
                     /\ writerPc' = IF ok THEN "loop" ELSE "deferDone"
                     /\ writerExit' = IF ok THEN writerExit ELSE "error"
          ELSE /\ sendChClosed
               /\ sendCh' = sendCh
               /\ writerPc' = "deferDone"
               /\ writerExit' = "closed"
    /\ UNCHANGED <<cmVars, svcVars, uidVars, adapterVars, mgrExit, readerExit, sendChClosed, readCh, readChClosed, workConnCh,
                   workConnChClosed, connClosed, pxyVars, latchVars, envVars,
                   timeVars, gwVars, runId, rwResult, startPc, primerI,
                   readerPc, readerMsg, mgrPc, mgrOut, mgrReturn, stopPc>>

\* defer ctl.writerShutdown.Done()
WriterDeferDone ==
    /\ writerPc = "deferDone"
    /\ writerDone' = TRUE
    /\ writerPc' = "deferStart"
    /\ UNCHANGED <<cmVars, svcVars, uidVars, adapterVars, exitVars, chanVars, pxyVars, allStart, allDone, readerDone,
                   managerDone, envVars, timeVars, gwVars, runId, rwResult,
                   startPc, primerI, readerPc, readerMsg, mgrPc, mgrOut,
                   mgrReturn, stopPc>>

\* defer ctl.allShutdown.Start()
WriterDeferStart ==
    /\ writerPc = "deferStart"
    /\ allStart' = TRUE
    /\ writerPc' = "exited"
    /\ UNCHANGED <<cmVars, svcVars, uidVars, adapterVars, exitVars, chanVars, pxyVars, allDone, readerDone, writerDone,
                   managerDone, envVars, timeVars, gwVars, runId, rwResult,
                   startPc, primerI, readerPc, readerMsg, mgrPc, mgrOut,
                   mgrReturn, stopPc>>

(***************************************************************************)
(* Control.reader (control.go:325-352)                                     *)
(***************************************************************************)

\* msg.ReadMsg returns the client's next message m, and ctl.readCh <- m: the
\* send panics when readCh is closed (the panic is recovered after the
\* deferred calls ran) and blocks while readCh is full.
ReaderRead(m) ==
    /\ readerPc = "read"
    /\ ~connClosed
    /\ msgsLeft > 0
    /\ msgsLeft' = msgsLeft - 1
    /\ IF readChClosed
          THEN /\ readCh' = readCh /\ readerPc' = "deferDone" /\ readerMsg' = NoMsg
               /\ readerExit' = "panic"
          ELSE IF Len(readCh) < ReadChCap
              THEN /\ readCh' = Append(readCh, m)
                   /\ readerPc' = "read"
                   /\ readerMsg' = NoMsg
                   /\ readerExit' = readerExit
              ELSE /\ readCh' = readCh /\ readerPc' = "send" /\ readerMsg' = m
                   /\ readerExit' = readerExit
    /\ UNCHANGED <<cmVars, svcVars, uidVars, adapterVars, writerExit, mgrExit, sendCh, sendChClosed, readChClosed, workConnCh,
                   workConnChClosed, connClosed, pxyVars, latchVars,
                   poolCount, maxPortsPerClient, connsLeft, callsLeft,
                   timeVars, gwVars, runId, rwResult, startPc, primerI,
                   writerPc, mgrPc, mgrOut, mgrReturn, stopPc>>

\* The blocked ctl.readCh <- m goes through, or panics once readCh is closed.
ReaderSend ==
    /\ readerPc = "send"
    /\ IF readChClosed
          THEN /\ readerPc' = "deferDone"
               /\ readCh' = readCh
               /\ readerExit' = "panic"
          ELSE /\ Len(readCh) < ReadChCap
               /\ readCh' = Append(readCh, readerMsg)
               /\ readerPc' = "read"
               /\ readerExit' = readerExit
    /\ readerMsg' = NoMsg
    /\ UNCHANGED <<cmVars, svcVars, uidVars, adapterVars, writerExit, mgrExit, sendCh, sendChClosed, readChClosed, workConnCh,
                   workConnChClosed, connClosed, pxyVars, latchVars, envVars,
                   timeVars, gwVars, runId, rwResult, startPc, primerI,
                   writerPc, mgrPc, mgrOut, mgrReturn, stopPc>>

\* msg.ReadMsg returns io.EOF: the client closed the connection.
ReaderEOF ==
    /\ readerPc = "read"
    /\ ~connClosed
    /\ readerPc' = "deferDone"
    /\ readerExit' = "eof"
    /\ UNCHANGED <<cmVars, svcVars, uidVars, adapterVars, writerExit, mgrExit, chanVars, pxyVars, latchVars, envVars, timeVars, gwVars,
                   runId, rwResult, startPc, primerI, writerPc, readerMsg,
                   mgrPc, mgrOut, mgrReturn, stopPc>>

\* msg.ReadMsg returns another error (the only outcome once the connection
\* is closed): ctl.conn.Close() and return.
ReaderErr ==
    /\ readerPc = "read"
    /\ connClosed' = TRUE
    /\ readerPc' = "deferDone"
    /\ readerExit' = "error"
    /\ UNCHANGED <<cmVars, svcVars, uidVars, adapterVars, writerExit, mgrExit, sendCh, sendChClosed, readCh, readChClosed, workConnCh,
                   workConnChClosed, pxyVars, latchVars, envVars, timeVars,
                   gwVars, runId, rwResult, startPc, primerI, writerPc,
                   readerMsg, mgrPc, mgrOut, mgrReturn, stopPc>>

\* defer ctl.readerShutdown.Done()
ReaderDeferDone ==
    /\ readerPc = "deferDone"
    /\ readerDone' = TRUE
    /\ readerPc' = "deferStart"
    /\ UNCHANGED <<cmVars, svcVars, uidVars, adapterVars, exitVars, chanVars, pxyVars, allStart, allDone, writerDone,
                   managerDone, envVars, timeVars, gwVars, runId, rwResult,
                   startPc, primerI, writerPc, readerMsg, mgrPc, mgrOut,
                   mgrReturn, stopPc>>

\* defer ctl.allShutdown.Start()
ReaderDeferStart ==
    /\ readerPc = "deferStart"
    /\ allStart' = TRUE
    /\ readerPc' = "exited"
    /\ UNCHANGED <<cmVars, svcVars, uidVars, adapterVars, exitVars, chanVars, pxyVars, allDone, readerDone, writerDone,
                   managerDone, envVars, timeVars, gwVars, runId, rwResult,
                   startPc, primerI, writerPc, readerMsg, mgrPc, mgrOut,
                   mgrReturn, stopPc>>

(***************************************************************************)
(* Control.RegisterProxy and Control.CloseProxy (control.go:542-624)       *)
(* The ProxyManager (server/proxy) keeps one proxy per name: Add fails on  *)
(* a name that is taken, Del removes the name.                             *)
(***************************************************************************)

PxyManagerHas(n) == n \in pxyManager
PxyManagerAdd(n) == pxyManager \cup {n}
PxyManagerDel(mgr, n) == mgr \ {n}

\* The deferred release of the reserved ports when RegisterProxy fails
\* (control.go:575-581).
ReleasePortsForgotten(reserved, n) == reserved

ReleasePorts(reserved, n) ==
    IF maxPortsPerClient > 0 THEN reserved - GetUsedPortsNum(n) ELSE reserved

\* The outcome of RegisterProxy(NewProxy{n}): err ("" for nil), remoteAddr
\* and the fields it leaves.  confOk: NewProxyConfFromMsg and proxy.NewProxy
\* succeed; runOk: pxy.Run succeeds.
RegisterProxy(n, confOk, runOk) ==
    LET same == [ports |-> portsUsedNum, proxies |-> proxies,
                 manager |-> pxyManager, running |-> pxyRunning, addr |-> ""]
        reserved == IF maxPortsPerClient > 0
                        THEN portsUsedNum + GetUsedPortsNum(n)
                        ELSE portsUsedNum
    IN  IF ~confOk
            THEN same @@ [err |-> "conf"]
        ELSE IF maxPortsPerClient > 0
                /\ portsUsedNum + GetUsedPortsNum(n) > maxPortsPerClient
            THEN same @@ [err |-> "exceed the max_ports_per_client"]
        ELSE IF ~runOk
            THEN [same EXCEPT !.ports = ReleasePorts(reserved, n)]
                     @@ [err |-> "run"]
        ELSE IF PxyManagerHas(n)
            \* the proxy that just Run is Closed again; remoteAddr stays set
            THEN [same EXCEPT !.ports = ReleasePorts(reserved, n),
                              !.addr = RemoteAddr(n)]
                     @@ [err |-> "taken"]
        ELSE [ports |-> reserved,
              proxies |-> proxies \cup {n},
              manager |-> PxyManagerAdd(n),
              running |-> pxyRunning \cup {n},
              addr |-> RemoteAddr(n),
              err |-> ""]

\* The registry fields as a record.
PxyState ==
    [ports |-> portsUsedNum, proxies |-> proxies, manager |-> pxyManager,
     running |-> pxyRunning]

\* The fields CloseProxy(CloseProxy{n}) leaves of the registry st.
CloseProxyKeepsPorts(st, n) ==
    IF n \notin st.proxies
        THEN st
        ELSE [ports |-> st.ports,
              proxies |-> st.proxies \ {n},
              manager |-> PxyManagerDel(st.manager, n),
              running |-> st.running \ {n}]

CloseProxyOn(st, n) ==
    IF n \notin st.proxies
        THEN st
        ELSE [ports |-> IF maxPortsPerClient > 0
                            THEN st.ports - GetUsedPortsNum(n)
                            ELSE st.ports,
              proxies |-> st.proxies \ {n},
              manager |-> PxyManagerDel(st.manager, n),
              running |-> st.running \ {n}]

\* The fields CloseProxy(CloseProxy{n}) leaves.
CloseProxyResult(n) == CloseProxyOn(PxyState, n)

(***************************************************************************)
(* Control.manager (control.go:408-540)                                    *)
(***************************************************************************)

\* The select takes a heartbeat tick, d seconds after the clock was last
\* looked at: return when lastPing is older than HeartBeatTimeout seconds.
ManagerHeartbeat(d) ==
    /\ mgrPc = "select"
    /\ LET elapsed == Min(sinceLastPing + d, SinceCap)
       IN  /\ sinceLastPing' = elapsed
           /\ mgrPc' = IF elapsed > HeartBeatTimeout THEN "deferDone" ELSE "select"
           /\ mgrExit' = IF elapsed > HeartBeatTimeout THEN "heartbeat" ELSE mgrExit
    /\ tickPending' = FALSE
    /\ UNCHANGED <<cmVars, svcVars, uidVars, adapterVars, writerExit, readerExit, chanVars, pxyVars, latchVars, envVars, gwVars, runId,
                   rwResult, startPc, primerI, writerPc, readerPc, readerMsg,
                   mgrOut, mgrReturn, stopPc>>

\* The select finds readCh closed and empty: return.
ManagerReadClosed ==
    /\ mgrPc = "select"
    /\ readCh = <<>>
    /\ readChClosed
    /\ mgrPc' = "deferDone"
    /\ mgrExit' = "closed"
    /\ UNCHANGED <<cmVars, svcVars, uidVars, adapterVars, writerExit, readerExit, chanVars, pxyVars, latchVars, envVars, timeVars, gwVars,
                   runId, rwResult, startPc, primerI, writerPc, readerPc,
                   readerMsg, mgrOut, mgrReturn, stopPc>>

\* ctl.sendCh <- resp (control.go:509, 529, 536), after which the manager
\* returns if ret: the send panics when sendCh is closed and blocks while it
\* is full.
ManagerReply(resp, ret) ==
    IF sendChClosed
        THEN /\ sendCh' = sendCh
             /\ mgrPc' = "deferDone"
             /\ mgrOut' = NoMsg
             /\ mgrReturn' = FALSE
             /\ mgrExit' = "panic"
        ELSE IF Len(sendCh) < SendChCap
            THEN /\ sendCh' = Append(sendCh, resp)
                 /\ mgrPc' = IF ret THEN "deferDone" ELSE "select"
                 /\ mgrOut' = NoMsg
                 /\ mgrReturn' = FALSE
                 /\ mgrExit' = IF ret THEN "ping" ELSE mgrExit
            ELSE /\ sendCh' = sendCh
                 /\ mgrPc' = "send"
                 /\ mgrOut' = resp
                 /\ mgrReturn' = ret
                 /\ mgrExit' = mgrExit

\* The select receives a NewProxy: plugin chain, RegisterProxy, and the
\* NewProxyResp is sent.
ManagerNewProxy ==
    /\ mgrPc = "select"
    /\ readCh # <<>>
    /\ Head(readCh).type = "NewProxy"
    /\ readCh' = Tail(readCh)
    /\ \E pluginOk, confOk, runOk \in BOOLEAN :
          LET n == Head(readCh).name
              res == RegisterProxy(n, confOk, runOk)
          IN  IF pluginOk
                  THEN /\ portsUsedNum' = res.ports
                       /\ proxies' = res.proxies
                       /\ pxyManager' = res.manager
                       /\ pxyRunning' = res.running
                       /\ ManagerReply(IF res.err # ""
                                           THEN NewProxyResp(n, TRUE, "")
                                           ELSE NewProxyResp(n, FALSE, res.addr),
                                       FALSE)
                  ELSE /\ UNCHANGED pxyVars
                       /\ ManagerReply(NewProxyResp(n, TRUE, ""), FALSE)
    /\ UNCHANGED <<cmVars, svcVars, uidVars, adapterVars, writerExit, readerExit, sendChClosed, readChClosed, workConnCh, workConnChClosed,
                   connClosed, latchVars, envVars, timeVars, gwVars, runId,
                   rwResult, startPc, primerI, writerPc, readerPc, readerMsg,
                   stopPc>>

\* The select receives a CloseProxy: ctl.CloseProxy, no reply.
ManagerCloseProxy ==
    /\ mgrPc = "select"
    /\ readCh # <<>>
    /\ Head(readCh).type = "CloseProxy"
    /\ readCh' = Tail(readCh)
    /\ LET res == CloseProxyResult(Head(readCh).name)
       IN  /\ portsUsedNum' = res.ports
           /\ proxies' = res.proxies
           /\ pxyManager' = res.manager
           /\ pxyRunning' = res.running
    /\ UNCHANGED <<cmVars, svcVars, uidVars, adapterVars, exitVars, sendCh, sendChClosed, readChClosed, workConnCh,
                   workConnChClosed, connClosed, latchVars, envVars, timeVars,
                   gwVars, runId, rwResult, startPc, primerI, writerPc,
                   readerPc, readerMsg, mgrPc, mgrOut, mgrReturn, stopPc>>

\* The select receives a Ping: plugin chain and VerifyPing; an invalid ping
\* is answered with Pong{Error} and the manager returns, a valid one sets
\* lastPing and is answered with Pong{}.
ManagerPing ==
    /\ mgrPc = "select"
    /\ readCh # <<>>
    /\ Head(readCh).type = "Ping"
    /\ readCh' = Tail(readCh)
    /\ \E valid \in BOOLEAN :
          IF valid
              THEN /\ sinceLastPing' = 0
                   /\ ManagerReply(Pong(FALSE), FALSE)
              ELSE /\ sinceLastPing' = sinceLastPing
                   /\ ManagerReply(Pong(TRUE), TRUE)
    /\ UNCHANGED <<cmVars, svcVars, uidVars, adapterVars, writerExit, readerExit, sendChClosed, readChClosed, workConnCh, workConnChClosed,
                   connClosed, pxyVars, latchVars, envVars, tickPending,
                   gwVars, runId, rwResult, startPc, primerI, writerPc,
                   readerPc, readerMsg, stopPc>>

\* The select receives a message of a kind the switch does not list.
ManagerOther ==
    /\ mgrPc = "select"
    /\ readCh # <<>>
    /\ Head(readCh).type = "Other"
    /\ readCh' = Tail(readCh)
    /\ UNCHANGED <<cmVars, svcVars, uidVars, adapterVars, exitVars, sendCh, sendChClosed, readChClosed, workConnCh,
                   workConnChClosed, connClosed, pxyVars, latchVars, envVars,
                   timeVars, gwVars, runId, rwResult, startPc, primerI,
                   writerPc, readerPc, readerMsg, mgrPc, mgrOut, mgrReturn,
                   stopPc>>

\* The blocked ctl.sendCh <- resp goes through, or panics once sendCh is
\* closed.
ManagerSend ==
    /\ mgrPc = "send"
    /\ sendChClosed \/ Len(sendCh) < SendChCap
    /\ ManagerReply(mgrOut, mgrReturn)
    /\ UNCHANGED <<cmVars, svcVars, uidVars, adapterVars, writerExit, readerExit, sendChClosed, readCh, readChClosed, workConnCh,
                   workConnChClosed, connClosed, pxyVars, latchVars, envVars,
                   timeVars, gwVars, runId, rwResult, startPc, primerI,
                   writerPc, readerPc, readerMsg, stopPc>>

\* defer ctl.managerShutdown.Done()
ManagerDeferDone ==
    /\ mgrPc = "deferDone"
    /\ managerDone' = TRUE
    /\ mgrPc' = "deferStart"
    /\ UNCHANGED <<cmVars, svcVars, uidVars, adapterVars, exitVars, chanVars, pxyVars, allStart, allDone, readerDone,
                   writerDone, envVars, timeVars, gwVars, runId, rwResult,
                   startPc, primerI, writerPc, readerPc, readerMsg, mgrOut,
                   mgrReturn, stopPc>>

\* defer ctl.allShutdown.Start()
ManagerDeferStart ==
    /\ mgrPc = "deferStart"
    /\ allStart' = TRUE
    /\ mgrPc' = "exited"
    /\ UNCHANGED <<cmVars, svcVars, uidVars, adapterVars, exitVars, chanVars, pxyVars, allDone, readerDone, writerDone,
                   managerDone, envVars, timeVars, gwVars, runId, rwResult,
                   startPc, primerI, writerPc, readerPc, readerMsg, mgrOut,
                   mgrReturn, stopPc>>

(***************************************************************************)
(* Control.stoper (control.go:354-401)                                     *)
(***************************************************************************)

\* ctl.allShutdown.WaitStart() returns.
WaitStartReturnsAtOnce == TRUE
WaitStartReturns == allStart

\* allShutdown.WaitStart() returns; close(ctl.readCh).
StoperCloseReadCh ==
    /\ stopPc = "waitStart"
    /\ WaitStartReturns
    /\ readChClosed' = TRUE
    /\ stopPc' = "waitManager"
    /\ UNCHANGED <<cmVars, svcVars, uidVars, adapterVars, exitVars, sendCh, sendChClosed, readCh, workConnCh, workConnChClosed,
                   connClosed, pxyVars, latchVars, envVars, timeVars, gwVars,
                   runId, rwResult, startPc, primerI, writerPc, readerPc,
                   readerMsg, mgrPc, mgrOut, mgrReturn>>

\* managerShutdown.WaitDone() returns; close(ctl.sendCh).
StoperCloseSendCh ==
    /\ stopPc = "waitManager"
    /\ managerDone
    /\ sendChClosed' = TRUE
    /\ stopPc' = "waitWriter"
    /\ UNCHANGED <<cmVars, svcVars, uidVars, adapterVars, exitVars, sendCh, readCh, readChClosed, workConnCh, workConnChClosed,
                   connClosed, pxyVars, latchVars, envVars, timeVars, gwVars,
                   runId, rwResult, startPc, primerI, writerPc, readerPc,
                   readerMsg, mgrPc, mgrOut, mgrReturn>>

\* writerShutdown.WaitDone() returns; ctl.conn.Close().
StoperCloseConn ==
    /\ stopPc = "waitWriter"
    /\ writerDone
    /\ connClosed' = TRUE
    /\ stopPc' = "waitReader"
    /\ UNCHANGED <<cmVars, svcVars, uidVars, adapterVars, exitVars, sendCh, sendChClosed, readCh, readChClosed, workConnCh,
                   workConnChClosed, pxyVars, latchVars, envVars, timeVars,
                   gwVars, runId, rwResult, startPc, primerI, writerPc,
                   readerPc, readerMsg, mgrPc, mgrOut, mgrReturn>>

\* readerShutdown.WaitDone() returns; ctl.mu.Lock(); close(ctl.workConnCh).
StoperCloseWorkConnCh ==
    /\ stopPc = "waitReader"
    /\ readerDone
    /\ workConnChClosed' = TRUE
    /\ stopPc' = "drain"
    /\ UNCHANGED <<cmVars, svcVars, uidVars, adapterVars, exitVars, sendCh, sendChClosed, readCh, readChClosed, workConnCh,
                   connClosed, pxyVars, latchVars, envVars, timeVars, gwVars,
                   runId, rwResult, startPc, primerI, writerPc, readerPc,
                   readerMsg, mgrPc, mgrOut, mgrReturn>>

\* One iteration of `for workConn := range ctl.workConnCh`: workConn.Close().
StoperDrain ==
    /\ stopPc = "drain"
    /\ workConnCh > 0
    /\ workConnCh' = workConnCh - 1
    /\ UNCHANGED <<cmVars, svcVars, uidVars, adapterVars, exitVars, sendCh, sendChClosed, readCh, readChClosed,
                   workConnChClosed, connClosed, pxyVars, latchVars, envVars,
                   timeVars, gwVars, runId, rwResult, pcVars>>

\* What the loop over ctl.proxies leaves of portsUsedNum: the loop does not
\* touch it (control.go:382-386).
StoperPortsUsedNum == portsUsedNum

\* What the loop over ctl.proxies leaves running and registered: every owned
\* proxy is Closed and removed from the ProxyManager.
StoperRunning == pxyRunning \ proxies

StoperManagerKept == pxyManager

StoperManager == {n \in pxyManager : n \notin proxies}

\* `for workConn := range ctl.workConnCh` ends: the pool is closed and empty.
RangeEndsEarly == TRUE

RangeEnds == workConnCh = 0

\* The range loop ends on the closed, empty pool; the loop over ctl.proxies;
\* allShutdown.Done().
StoperCloseProxies ==
    /\ stopPc = "drain"
    /\ RangeEnds
    /\ pxyRunning' = StoperRunning
    /\ pxyManager' = StoperManager
    /\ portsUsedNum' = StoperPortsUsedNum
    /\ proxies' = proxies
    /\ allDone' = TRUE
    /\ stopPc' = "done"
    /\ UNCHANGED <<cmVars, svcVars, uidVars, adapterVars, exitVars, chanVars, allStart, readerDone, writerDone, managerDone,
                   envVars, timeVars, gwVars, runId, rwResult, startPc,
                   primerI, writerPc, readerPc, readerMsg, mgrPc, mgrOut,
                   mgrReturn>>

\* WaitClosed has returned: allShutdown.WaitDone() (control.go:404-406).
WaitClosedReturned == allDone

(***************************************************************************)
(* A panic inside a task (control.go:296-304, 327-335, 410-418): the       *)
(* deferred calls run last-in first-out, Done, then allShutdown.Start,     *)
(* then the function that recovers, and the task ends.                     *)
(***************************************************************************)

\* The writer panics in crypto.NewWriter or in its loop.
WriterPanic ==
    /\ writerPc \in {"new", "loop"}
    /\ writerPc' = "deferDone"
    /\ writerExit' = "panic"
    /\ UNCHANGED <<cmVars, svcVars, uidVars, adapterVars, mgrExit, readerExit, chanVars, pxyVars, latchVars,
                   envVars, timeVars, gwVars, runId, rwResult, startPc,
                   primerI, readerPc, readerMsg, mgrPc, mgrOut, mgrReturn,
                   stopPc>>

\* The reader panics in msg.ReadMsg or at its send.
ReaderPanic ==
    /\ readerPc \in {"read", "send"}
    /\ readerPc' = "deferDone"
    /\ readerMsg' = NoMsg
    /\ readerExit' = "panic"
    /\ UNCHANGED <<cmVars, svcVars, uidVars, adapterVars, writerExit, mgrExit, chanVars, pxyVars, latchVars,
                   envVars, timeVars, gwVars, runId, rwResult, startPc,
                   primerI, writerPc, mgrPc, mgrOut, mgrReturn, stopPc>>

\* The manager panics in its select or in a handler.
ManagerPanic ==
    /\ mgrPc \in {"select", "send"}
    /\ mgrPc' = "deferDone"
    /\ mgrOut' = NoMsg
    /\ mgrReturn' = FALSE
    /\ mgrExit' = "panic"
    /\ UNCHANGED <<cmVars, svcVars, uidVars, adapterVars, writerExit, readerExit, chanVars, pxyVars, latchVars,
                   envVars, timeVars, gwVars, runId, rwResult, startPc,
                   primerI, writerPc, readerPc, readerMsg, stopPc>>

(***************************************************************************)
(* Control.RegisterWorkConn (control.go:214-231)                           *)
(***************************************************************************)

\* Capacity of workConnCh (control.go:177).
WorkConnChCap == poolCount + PoolSlack

\* The select at control.go:223-230 chooses the send case.
PoolHasRoomOffByOne == workConnCh <= WorkConnChCap

PoolHasRoom == workConnCh < WorkConnChCap

\* The non-blocking send.  On a closed pool the send panics; the deferred
\* recover swallows the panic and the unnamed result is the zero value, nil.
RegisterWorkConn ==
    /\ connsLeft > 0
    /\ connsLeft' = connsLeft - 1
    /\ IF workConnChClosed
          THEN workConnCh' = workConnCh /\ rwResult' = "nil"
          ELSE IF PoolHasRoom
              THEN workConnCh' = workConnCh + 1 /\ rwResult' = "nil"
              ELSE workConnCh' = workConnCh /\ rwResult' = "full"
    /\ UNCHANGED <<cmVars, svcVars, uidVars, adapterVars, exitVars, sendCh, sendChClosed, readCh, readChClosed,
                   workConnChClosed, connClosed, pxyVars, latchVars,
                   poolCount, maxPortsPerClient, msgsLeft, callsLeft,
                   timeVars, gwVars, runId, pcVars>>

(***************************************************************************)
(* Control.GetWorkConn (control.go:237-285)                                *)
(***************************************************************************)

\* The default branch (control.go:257-263): ctl.sendCh <- &msg.ReqWorkConn{}
\* inside PanicToError; it returns the error when sendCh is closed and blocks
\* while sendCh is full.
GetWorkConnRequestSend ==
    IF sendChClosed
        THEN sendCh' = sendCh /\ gwPc' = "idle" /\ gwResult' = "sendError"
        ELSE IF Len(sendCh) < SendChCap
            THEN /\ sendCh' = Append(sendCh, ReqWorkConn)
                 /\ gwPc' = "wait"
                 /\ gwResult' = "none"
            ELSE sendCh' = sendCh /\ gwPc' = "request" /\ gwResult' = "none"

\* The tail (control.go:280-284), reached with a connection in hand after
\* `attempted` replenishing sends of this call: the replenishing
\* ctl.sendCh <- &msg.ReqWorkConn{} inside PanicToError, whose panic on a
\* closed sendCh is dropped and which blocks while sendCh is full, then the
\* return of the connection.
GetWorkConnReplenishSkipped(attempted) ==
    /\ sendCh' = sendCh
    /\ gwPc' = "idle"
    /\ gwResult' = "conn"
    /\ gwReplenish' = attempted

GetWorkConnReplenishSend(attempted) ==
    IF sendChClosed
        THEN /\ sendCh' = sendCh
             /\ gwPc' = "idle"
             /\ gwResult' = "conn"
             /\ gwReplenish' = attempted + 1
        ELSE IF Len(sendCh) < SendChCap
            THEN /\ sendCh' = Append(sendCh, ReqWorkConn)
                 /\ gwPc' = "idle"
                 /\ gwResult' = "conn"
                 /\ gwReplenish' = attempted + 1
            ELSE /\ sendCh' = sendCh
                 /\ gwPc' = "replenish"
                 /\ gwResult' = "none"
                 /\ gwReplenish' = attempted

\* The call and its first select: take a pooled connection, or return
\* ErrCtlClosed on the closed empty pool, or fall to the default branch.
GetWorkConnCall ==
    /\ gwPc = "idle"
    /\ callsLeft > 0
    /\ startPc = "done"
    /\ callsLeft' = callsLeft - 1
    /\ IF workConnCh > 0
          THEN /\ workConnCh' = workConnCh - 1
               /\ gwHit' = TRUE
               /\ GetWorkConnReplenishSend(0)
          ELSE /\ workConnCh' = workConnCh
               /\ gwHit' = FALSE
               /\ gwReplenish' = 0
               /\ IF workConnChClosed
                     THEN /\ sendCh' = sendCh
                          /\ gwPc' = "idle"
                          /\ gwResult' = "ErrCtlClosed"
                     ELSE GetWorkConnRequestSend
    /\ UNCHANGED <<cmVars, svcVars, uidVars, adapterVars, exitVars, sendChClosed, readCh, readChClosed, workConnChClosed,
                   connClosed, pxyVars, latchVars, poolCount,
                   maxPortsPerClient, msgsLeft, connsLeft, timeVars, runId,
                   rwResult, pcVars>>

\* The blocked request send goes through, or fails once sendCh is closed.
GetWorkConnRequest ==
    /\ gwPc = "request"
    /\ sendChClosed \/ Len(sendCh) < SendChCap
    /\ GetWorkConnRequestSend
    /\ UNCHANGED <<cmVars, svcVars, uidVars, adapterVars, exitVars, sendChClosed, readCh, readChClosed, workConnCh,
                   workConnChClosed, connClosed, pxyVars, latchVars, envVars,
                   timeVars, gwReplenish, gwHit, runId, rwResult, pcVars>>

\* The second select receives from workConnCh: a connection, or ErrCtlClosed
\* on the closed empty pool.
GetWorkConnWait ==
    /\ gwPc = "wait"
    /\ IF workConnCh > 0
          THEN /\ workConnCh' = workConnCh - 1
               /\ GetWorkConnReplenishSend(gwReplenish)
          ELSE /\ workConnChClosed
               /\ workConnCh' = workConnCh
               /\ sendCh' = sendCh
               /\ gwPc' = "idle"
               /\ gwResult' = "ErrCtlClosed"
               /\ gwReplenish' = gwReplenish
    /\ UNCHANGED <<cmVars, svcVars, uidVars, adapterVars, exitVars, sendChClosed, readCh, readChClosed, workConnChClosed,
                   connClosed, pxyVars, latchVars, envVars, timeVars, gwHit,
                   runId, rwResult, pcVars>>

\* The second select takes time.After(UserConnTimeout).
GetWorkConnTimeout ==
    /\ gwPc = "wait"
    /\ gwPc' = "idle"
    /\ gwResult' = "timeout"
    /\ UNCHANGED <<cmVars, svcVars, uidVars, adapterVars, exitVars, chanVars, pxyVars, latchVars, envVars, timeVars,
                   gwReplenish, gwHit, runId, rwResult, pcVars>>

\* The blocked replenishing send goes through, or is dropped once sendCh is
\* closed, and the connection is returned.
GetWorkConnReplenish ==
    /\ gwPc = "replenish"
    /\ sendChClosed \/ Len(sendCh) < SendChCap
    /\ GetWorkConnReplenishSend(gwReplenish)
    /\ UNCHANGED <<cmVars, svcVars, uidVars, adapterVars, exitVars, sendChClosed, readCh, readChClosed, workConnCh,
                   workConnChClosed, connClosed, pxyVars, latchVars, envVars,
                   timeVars, gwHit, runId, rwResult, pcVars>>

(***************************************************************************)
(* Control.Replaced (control.go:287-292) and the passing of time           *)
(***************************************************************************)

\* A later login with the same run id evicts this Control.
Replaced ==
    /\ runId # EmptyRunId
    /\ runId' = EmptyRunId
    /\ allStart' = TRUE
    /\ UNCHANGED <<cmVars, svcVars, uidVars, adapterVars, exitVars, chanVars, pxyVars, allDone, readerDone, writerDone,
                   managerDone, envVars, timeVars, gwVars, rwResult, pcVars>>

\* The manager's ticker exists from the start of the manager to its return.
TickerRunning == mgrPc \in {"select", "send"}

\* The manager can take a step now: a case of its select is ready, or its
\* blocked send can go through.
ManagerReady ==
    \/ mgrPc \in {"deferDone", "deferStart"}
    \/ mgrPc = "select" /\ (tickPending \/ readCh # <<>> \/ readChClosed)
    \/ mgrPc = "send" /\ (sendChClosed \/ Len(sendCh) < SendChCap)

\* The writer can take a step now.
WriterReady ==
    \/ writerPc \in {"new", "deferDone", "deferStart"}
    \/ writerPc = "loop" /\ (sendCh # <<>> \/ sendChClosed)

\* One second passes while the manager waits in its select or in a blocked
\* send that the writer is not about to free; the ticker puts a tick in
\* heartbeat.C (which holds at most one).
Tick ==
    /\ TickerRunning
    /\ ~ManagerReady
    /\ ~WriterReady
    /\ sinceLastPing < SinceCap \/ ~tickPending
    /\ sinceLastPing' = Min(sinceLastPing + 1, SinceCap)
    /\ tickPending' = TRUE
    /\ UNCHANGED <<cmVars, svcVars, uidVars, adapterVars, exitVars, chanVars, pxyVars, latchVars, envVars, gwVars, runId,
                   rwResult, pcVars>>

(***************************************************************************)
(* Part III.  The client's supervisor, Service.keepControllerWorking       *)
(* (client/service.go:146-205).  Durations are in seconds.                 *)
(***************************************************************************)

Second == 1
Minute == 60
maxDelayTime == 20

\* What the environment does in a run of the supervisor: the sessions that
\* end and the logins in a row that fail.
MaxDeaths == 10
MaxFails == 8

\* The state when Run has logged in, installed the first ClientControl and
\* started keepControllerWorking, which has set up its locals and waits for
\* ClosedDone; the environment will end `deaths` sessions.
NewService(deaths) ==
    /\ svcExit = 0
    /\ svcCtl = 1
    /\ closedDone = FALSE
    /\ kcwPc = "wait"
    /\ delayTime = Second
    /\ reconnectDelay = Second
    /\ reconnectCounts = 1
    /\ untilCutoff = Minute
    /\ deathsInWindow = 0
    /\ fails = 0
    /\ outerSleep = 0
    /\ innerSleep = 0
    /\ loginsSinceDone = 0
    /\ deathsLeft = deaths

\* cutoffTime - time.Now() once d more seconds have passed.
Elapse(d) == IF untilCutoff - d < 0 THEN -1 ELSE untilCutoff - d

\* now.After(cutoffTime)
WindowOver(t) == t < 0

\* The installed session ends d seconds after the supervisor last looked at
\* the clock: its ClientControl closes ClosedDoneCh.
SessionDies(d) ==
    /\ ~closedDone
    /\ deathsLeft > 0
    /\ closedDone' = TRUE
    /\ deathsLeft' = deathsLeft - 1
    /\ untilCutoff' = Elapse(d)
    /\ UNCHANGED <<cmVars, ctlVars, uidVars, adapterVars, svcExit, svcCtl, kcwPc, delayTime, reconnectDelay,
                   reconnectCounts, deathsInWindow, fails, outerSleep, innerSleep,
                   loginsSinceDone>>

\* Service.Close: store exit, then close the installed ClientControl.
ServiceClose ==
    /\ svcExit = 0
    /\ svcExit' = 1
    /\ closedDone' = TRUE
    /\ UNCHANGED <<cmVars, ctlVars, uidVars, adapterVars, svcCtl, kcwPc, delayTime, reconnectDelay,
                   reconnectCounts, untilCutoff, deathsInWindow, fails, outerSleep,
                   innerSleep, loginsSinceDone, deathsLeft>>

\* atomic.LoadUint32(&svr.exit) != 0
ExitRequestedNever(e) == FALSE
ExitRequested(e) == e # 0

\* ClosedDone received with exit set: the supervisor returns.
KcwReturn ==
    /\ kcwPc = "wait"
    /\ closedDone
    /\ ExitRequested(svcExit)
    /\ kcwPc' = "returned"
    /\ UNCHANGED <<cmVars, ctlVars, uidVars, adapterVars, svcExit, svcCtl, closedDone, delayTime, reconnectDelay,
                   reconnectCounts, untilCutoff, deathsInWindow, fails, outerSleep,
                   innerSleep, loginsSinceDone, deathsLeft>>

\* "the first three retry with no delay"
SleepsBeforeReconnectFromThird(counts) == counts >= 3
SleepsBeforeReconnect(counts) == counts > 3

\* ClosedDone received with exit clear: sleep if this is not one of the first
\* three reconnects, count the reconnect, restart the window if its minute is
\* over, and go on to log in.
KcwReconnect ==
    /\ kcwPc = "wait"
    /\ closedDone
    /\ ~ExitRequested(svcExit)
    /\ LET slept == SleepsBeforeReconnect(reconnectCounts)
           d     == IF slept THEN reconnectDelay ELSE 0
           t     == Elapse(d)
       IN  /\ outerSleep' = d
           /\ IF WindowOver(t)
                THEN /\ untilCutoff' = Minute
                     /\ reconnectDelay' = Second
                     /\ reconnectCounts' = 1
                     /\ deathsInWindow' = 0
                ELSE /\ untilCutoff' = t
                     /\ reconnectDelay' = IF slept THEN reconnectDelay * 2
                                                   ELSE reconnectDelay
                     /\ reconnectCounts' = reconnectCounts + 1
                     /\ deathsInWindow' = deathsInWindow + 1
    /\ kcwPc' = "login"
    /\ fails' = 0
    /\ loginsSinceDone' = 0
    /\ UNCHANGED <<cmVars, ctlVars, uidVars, adapterVars, svcExit, svcCtl, closedDone, delayTime, innerSleep,
                   deathsLeft>>

\* time.Sleep(delayTime) after a failed login
FailedLoginSleepNone(d) == 0
FailedLoginSleep(d) == d

\* delayTime = delayTime * 2, capped at maxDelayTime
NextDelayTimeUncapped(d) == d * 2
NextDelayTime(d) == IF d * 2 > maxDelayTime THEN maxDelayTime ELSE d * 2

\* svr.login() fails: sleep delayTime, double it up to the cap, try again.
LoginFail ==
    /\ kcwPc = "login"
    /\ fails < MaxFails
    /\ innerSleep' = FailedLoginSleep(delayTime)
    /\ untilCutoff' = Elapse(FailedLoginSleep(delayTime))
    /\ delayTime' = NextDelayTime(delayTime)
    /\ fails' = fails + 1
    /\ loginsSinceDone' = loginsSinceDone + 1
    /\ UNCHANGED <<cmVars, ctlVars, uidVars, adapterVars, svcExit, svcCtl, closedDone, kcwPc, reconnectDelay,
                   reconnectCounts, deathsInWindow, outerSleep, deathsLeft>>

\* svr.login() succeeds: delayTime is reset, the new ClientControl runs and
\* is installed as svr.ctl, and the supervisor waits for its ClosedDone.
LoginOk ==
    /\ kcwPc = "login"
    /\ delayTime' = Second
    /\ svcCtl' = svcCtl + 1
    /\ closedDone' = FALSE
    /\ kcwPc' = "wait"
    /\ fails' = 0
    /\ loginsSinceDone' = loginsSinceDone + 1
    /\ UNCHANGED <<cmVars, ctlVars, uidVars, adapterVars, svcExit, reconnectDelay, reconnectCounts,
                   untilCutoff, deathsInWindow, outerSleep, innerSleep, deathsLeft>>

(***************************************************************************)
(* Part IV.  GetUniqueId (utils/util).  A hardware address is a sequence   *)
(* of octets, empty for an interface without one; the output of ls is the  *)
(* sequence of its lines, as strings.Split(out, "\n") gives them.          *)
(***************************************************************************)

NoResult == [returned |-> FALSE]

\* What ls prints when the directory does not exist.
NoSuchFile == "ls: /sys/devices/virtual/net/: No such file or directory"

\* strings.Contains(string(out), "No such file or directory")
ContainsNoSuchFile(out) == \E i \in 1..Len(out) : out[i] = NoSuchFile

\* The non-empty lines of the output, in order.
NonEmptyLines(out) == SelectSeq(out, LAMBDA temp : temp # "")

\* virtualNetInterfaces: the guarded GetUniqueId takes no line of an output
\* that reports a missing directory, the other one takes every non-empty
\* line.
VirtualNetInterfaces(out, guarded) ==
    IF guarded /\ ContainsNoSuchFile(out) THEN <<>> ELSE NonEmptyLines(out)

\* The loop over virtualNetInterfaces for one interface, from `index` on: the
\* hardware address is appended in the last iteration if no name matched.
RECURSIVE RangeVirtual(_, _, _, _, _)
RangeVirtual(inter, virtuals, index, isVirtual, physical) ==
    IF index > Len(virtuals)
      THEN physical
      ELSE LET v == isVirtual \/ inter.Name = virtuals[index]
               p == IF ~v /\ index = Len(virtuals)
                      THEN Append(physical, inter.HardwareAddr)
                      ELSE physical
           IN  RangeVirtual(inter, virtuals, index + 1, v, p)

\* An interface takes part in the loop over virtualNetInterfaces.
HasHardwareAddrAlways(inter) == TRUE
HasHardwareAddr(inter) == inter.HardwareAddr # <<>>

\* physicalNetInterfaces: the loop over the interfaces.
RECURSIVE RangeInterfaces(_, _, _)
RangeInterfaces(interfaces, virtuals, physical) ==
    IF interfaces = <<>>
      THEN physical
      ELSE LET inter == Head(interfaces)
           IN  RangeInterfaces(Tail(interfaces), virtuals,
                   IF HasHardwareAddr(inter)
                     THEN RangeVirtual(inter, virtuals, 1, FALSE, physical)
                     ELSE physical)

\* The number written by a sequence of octets.
RECURSIVE BigInt(_)
BigInt(octets) ==
    IF octets = <<>> THEN 0
    ELSE BigInt(SubSeq(octets, 1, Len(octets) - 1)) * 256 + octets[Len(octets)]

\* hexToBigInt(hex): the number written by hex[2:], the address without its
\* first octet.
hexToBigInt(hw) == BigInt(Tail(hw))

\* decimal.NewFromBigInt(hexToBigInt(hex), 1): the value times 10^1.
Key(hw) == hexToBigInt(hw) * 10

\* sortDecimalArray: the least key; indexing an empty slice panics.
sortDecimalArray(keys) ==
    CHOOSE k \in {keys[i] : i \in 1..Len(keys)} :
        \A i \in 1..Len(keys) : k <= keys[i]

\* The last 20 hex digits of the SHA-1 of the printed key.
Sha1Tail(key) == <<"sha1", key>>

\* The address the map deciamlArraies holds for a key: the last one written.
RECURSIVE LastWithKey(_, _)
LastWithKey(physical, key) ==
    IF Key(physical[Len(physical)]) = key
      THEN physical[Len(physical)]
      ELSE LastWithKey(SubSeq(physical, 1, Len(physical) - 1), key)

GetUniqueId(interfaces, out, guarded) ==
    LET virtuals == VirtualNetInterfaces(out, guarded)
        physical == RangeInterfaces(interfaces, virtuals, <<>>)
        keys     == [i \in 1..Len(physical) |-> Key(physical[i])]
    IN  IF keys = <<>>
          THEN [returned |-> TRUE, panic |-> TRUE, physical |-> physical,
                id |-> <<>>, mac |-> <<>>]
          ELSE [returned |-> TRUE, panic |-> FALSE, physical |-> physical,
                id |-> Sha1Tail(sortDecimalArray(keys)),
                mac |-> IF guarded
                          THEN LastWithKey(physical, sortDecimalArray(keys))
                          ELSE <<>>]

\* The call.
CallGetUniqueId ==
    /\ uidResult = NoResult
    /\ uidResult' = GetUniqueId(uidInterfaces, uidOut, uidGuarded)
    /\ UNCHANGED <<cmVars, ctlVars, svcVars, adapterVars, uidInterfaces, uidOut, uidGuarded>>

(***************************************************************************)
(* Part V.  The status calls to the adapter service when a Control is      *)
(* replaced: the stoper of the replaced Control reports offline after      *)
(* allShutdown.Done (control.go:388-400), the manager of the new Control   *)
(* reports online when it has registered a proxy (control.go:471-507).     *)
(* Both Controls belong to one client and send the same unique id.         *)
(***************************************************************************)

\* Nothing reported yet, and the new Control not yet built; waits: the
\* caller of ControlManager.Add starts the new Control only after the
\* WaitClosed of the one it replaced.
NoAdapter(waits) ==
    /\ adapterLog = <<>>
    /\ offlineSent = FALSE
    /\ newCtlPc = "none"
    /\ startWaits = waits

\* A call the adapter receives.
StatusCall(path, status) == [path |-> path, status |-> status]

\* The stoper's last step: PUT /frp_update with status=offline.
StoperOffline ==
    /\ stopPc = "done"
    /\ ~offlineSent
    /\ offlineSent' = TRUE
    /\ adapterLog' = Append(adapterLog, StatusCall("frp_update", "offline"))
    /\ UNCHANGED <<cmVars, ctlVars, svcVars, uidVars, newCtlPc, startWaits>>

\* ControlManager.Add has replaced this Control (Replaced cleared its runId)
\* and the new Control is started, after the old one's WaitClosed if the
\* caller waits for it.
NewCtlStart ==
    /\ newCtlPc = "none"
    /\ runId = EmptyRunId
    /\ startWaits => WaitClosedReturned
    /\ newCtlPc' = "started"
    /\ UNCHANGED <<cmVars, ctlVars, svcVars, uidVars, adapterLog, offlineSent, startWaits>>

\* What the manager of the new Control reports after a successful
\* RegisterProxy: /frp_create when the fetch answers 404, nothing when it
\* answers 400, /frp_update otherwise, with status=online.
OnlineCalls(fetched) ==
    IF fetched = "400" THEN <<>>
    ELSE IF fetched = "404" THEN <<StatusCall("frp_create", "online")>>
    ELSE <<StatusCall("frp_update", "online")>>

\* The new Control's manager registers a proxy and reports.
NewCtlRegister(fetched) ==
    /\ newCtlPc = "started"
    /\ newCtlPc' = "registered"
    /\ adapterLog' = adapterLog \o OnlineCalls(fetched)
    /\ UNCHANGED <<cmVars, ctlVars, svcVars, uidVars, offlineSent, startWaits>>

(***************************************************************************)
(* Specifications                                                          *)
(***************************************************************************)

\* What the environment does in a run: the messages the client sends, the
\* work connections it dials, the GetWorkConn calls of the proxies.
MaxMsgs == 2
MaxConns == 1
MaxCalls == 1
MaxPxyMsgs == 2

\* The ControlManager at rest, for the specifications of one Control.
CMIdle == CMInit /\ loginRunId = [c \in Ctls |-> "r1"]

\* The Control at rest, for the specification of the ControlManager.
CtlIdle == NewControl(0, 0, 0, 0, 0)

\* The client's Service at rest, for the specifications of the server.
SvcIdle == NewService(0)

\* No adapter and no replacing Control, for the other specifications.
AdapterIdle == NoAdapter(FALSE)

\* No call of GetUniqueId, for the other specifications.
UidIdle ==
    /\ uidInterfaces = <<>>
    /\ uidOut = <<>>
    /\ uidGuarded = FALSE
    /\ uidResult = NoResult

\* The machines GetUniqueId runs on: up to MaxIfs interfaces, with and
\* without a hardware address, and the outputs of ls: nothing at all, an
\* empty directory, a directory with one or two entries, no directory.
MaxIfs == 2
IfNames == {"eth0", "docker0"}
HardwareAddrs == {<<>>, <<2, 0, 1>>, <<2, 1, 0>>}
Interfaces == [Name : IfNames, HardwareAddr : HardwareAddrs]
InterfaceLists == UNION {[1..n -> Interfaces] : n \in 0..MaxIfs}
LsOutputs ==
    { <<>>, <<"">>, <<"docker0", "">>, <<"docker0", "lo", "">>,
      <<"eth0", "docker0", "">>, <<NoSuchFile, "">> }

\* A session ends at once or after the window's minute is over.
SessionTimes == {0, Minute + 1}

\* The steps of the Control's goroutines that every specification of one
\* Control has.
LifecycleStep ==
    \/ StartLaunchWriter \/ StartLaunchRest
    \/ WriterNew \/ WriterLoop \/ WriterDeferDone \/ WriterDeferStart
    \/ ReaderEOF \/ ReaderErr \/ ReaderDeferDone
    \/ ReaderDeferStart
    \/ ManagerReadClosed \/ ManagerDeferDone
    \/ ManagerDeferStart
    \/ StoperCloseReadCh \/ StoperCloseSendCh \/ StoperCloseConn
    \/ StoperCloseWorkConnCh \/ StoperCloseProxies
    \/ Replaced

\* The steps of a GetWorkConn call in progress.
GetWorkConnStep ==
    \/ GetWorkConnRequest \/ GetWorkConnWait \/ GetWorkConnTimeout
    \/ GetWorkConnReplenish

\* The pings and unlisted messages of the client.
PingMsgs == {Ping, OtherMsg}

\* The proxy announcements of the client.
ProxyMsgs == {NewProxy(n) : n \in ProxyNames} \cup {CloseProxy(n) : n \in ProxyNames}

\* A session whose client pings, dials work connections and whose proxies ask
\* for them; poolCount and the run are otherwise free.
Init ==
    /\ CMIdle
    /\ SvcIdle
    /\ UidIdle
    /\ AdapterIdle
    /\ \E lp \in 0..(MaxPoolCount + 1) :
          NewControl(lp, 0, MaxMsgs, MaxConns, MaxCalls)

Next ==
    \/ LifecycleStep
    \/ StartPrimer
    \/ \E m \in PingMsgs : ReaderRead(m)
    \/ ReaderSend
    \/ ManagerSend
    \/ ManagerHeartbeat(1)
    \/ ManagerPing
    \/ ManagerOther
    \/ StoperDrain
    \/ RegisterWorkConn
    \/ GetWorkConnCall
    \/ GetWorkConnStep

\* One Control, from NewControl on, in every interleaving of its tasks.
Spec == Init /\ [][Next]_vars

\* A session whose client announces and closes proxies and sends messages of
\* an unlisted kind, with and without a port quota.
InitPxy ==
    /\ CMIdle
    /\ SvcIdle
    /\ UidIdle
    /\ AdapterIdle
    /\ \E mp \in 0..MaxPortsCfg : NewControl(0, mp, MaxPxyMsgs, 0, 0)

NextPxy ==
    \/ LifecycleStep
    \/ \E m \in ProxyMsgs \cup {OtherMsg} : ReaderRead(m)
    \/ ReaderSend
    \/ ManagerSend
    \/ ManagerHeartbeat(1)
    \/ ManagerNewProxy
    \/ ManagerCloseProxy
    \/ ManagerOther

SpecPxy == InitPxy /\ [][NextPxy]_vars

\* A session whose client announces proxies and dials work connections, for
\* the whole of the teardown.
InitStop ==
    /\ CMIdle
    /\ SvcIdle
    /\ UidIdle
    /\ AdapterIdle
    /\ NewControl(0, 0, MaxPxyMsgs, MaxConns, 0)

NextStop ==
    \/ LifecycleStep
    \/ \E m \in ProxyMsgs : ReaderRead(m)
    \/ ReaderSend
    \/ ManagerSend
    \/ ManagerHeartbeat(1)
    \/ ManagerNewProxy
    \/ ManagerCloseProxy
    \/ RegisterWorkConn
    \/ StoperDrain

SpecStop == InitStop /\ [][NextStop]_vars

\* A session whose client pings and dials a work connection, and whose tasks
\* may panic at any point.
InitCrash ==
    /\ CMIdle
    /\ SvcIdle
    /\ UidIdle
    /\ AdapterIdle
    /\ \E lp \in 0..MaxPoolCount : NewControl(lp, 0, MaxMsgs, MaxConns, 0)

NextCrash ==
    \/ LifecycleStep
    \/ StartPrimer
    \/ ReaderRead(Ping)
    \/ ReaderSend
    \/ ManagerSend
    \/ ManagerHeartbeat(1)
    \/ ManagerPing
    \/ StoperDrain
    \/ RegisterWorkConn
    \/ WriterPanic
    \/ ReaderPanic
    \/ ManagerPanic

SpecCrash == InitCrash /\ [][NextCrash]_vars

\* The start of a session on servers configured with every MaxPoolCount up
\* to one more than sendCh holds, for every pool count a login can ask for.
InitStart ==
    /\ CMIdle
    /\ SvcIdle
    /\ UidIdle
    /\ AdapterIdle
    /\ \E mpc \in 0..(SendChCap + 1), lp \in 0..(SendChCap + 2) :
          NewControlWith(mpc, lp, 0, MaxMsgs, 0, 0)

NextStart ==
    \/ LifecycleStep
    \/ StartPrimer
    \/ ReaderRead(Ping)
    \/ ReaderSend
    \/ ManagerSend
    \/ ManagerHeartbeat(1)
    \/ ManagerPing

SpecStart == InitStart /\ [][NextStart]_vars

\* What the adapter's fetch may answer.
FetchAnswers == {"404", "400", "200"}

\* A session that is replaced by a new Control of the same client while it
\* runs or is being torn down.
InitHandover ==
    /\ CMIdle
    /\ SvcIdle
    /\ UidIdle
    /\ \E waits \in BOOLEAN : NoAdapter(waits)
    /\ \E lp \in 0..MaxPoolCount : NewControl(lp, 0, MaxMsgs, 0, 0)

NextHandover ==
    \/ LifecycleStep
    \/ StartPrimer
    \/ ReaderRead(Ping)
    \/ ReaderSend
    \/ ManagerSend
    \/ ManagerHeartbeat(1)
    \/ ManagerPing
    \/ StoperOffline
    \/ NewCtlStart
    \/ \E fetched \in FetchAnswers : NewCtlRegister(fetched)

SpecHandover == InitHandover /\ [][NextHandover]_vars

\* A session whose client dials more work connections than the pool holds.
InitPool ==
    /\ CMIdle
    /\ SvcIdle
    /\ UidIdle
    /\ AdapterIdle
    /\ \E lp \in 0..(MaxPoolCount + 1) :
          NewControl(lp, 0, 0, MaxPoolCount + PoolSlack + 1, MaxCalls)

NextPool ==
    \/ LifecycleStep
    \/ StartPrimer
    \/ StoperDrain
    \/ RegisterWorkConn
    \/ GetWorkConnCall
    \/ GetWorkConnStep

SpecPool == InitPool /\ [][NextPool]_vars

\* A session against the clock: a second passes only when the manager has
\* nothing to do.
InitTimed ==
    /\ CMIdle
    /\ SvcIdle
    /\ UidIdle
    /\ AdapterIdle
    /\ \E lp \in 0..(MaxPoolCount + 1) : NewControl(lp, 0, MaxMsgs, 0, 0)

NextTimed ==
    \/ LifecycleStep
    \/ StartPrimer
    \/ ReaderRead(Ping)
    \/ ReaderSend
    \/ ManagerSend
    \/ Tick
    \/ tickPending /\ ManagerHeartbeat(0)
    \/ ManagerPing

SpecTimed == InitTimed /\ [][NextTimed]_vars

\* The scheduler runs every task that can take a step, the ticker keeps
\* ticking, a read on the closed connection returns, and the timer of a
\* waiting GetWorkConn fires; the client and the callers owe nothing.
Fairness ==
    /\ WF_vars(StartLaunchWriter) /\ WF_vars(StartPrimer)
    /\ WF_vars(StartLaunchRest)
    /\ WF_vars(WriterNew) /\ WF_vars(WriterLoop)
    /\ WF_vars(WriterDeferDone) /\ WF_vars(WriterDeferStart)
    /\ WF_vars(ReaderSend) /\ WF_vars(connClosed /\ ReaderErr)
    /\ WF_vars(ReaderDeferDone) /\ WF_vars(ReaderDeferStart)
    /\ WF_vars(ManagerHeartbeat(1)) /\ WF_vars(ManagerReadClosed)
    /\ WF_vars(ManagerPing) /\ WF_vars(ManagerOther)
    /\ WF_vars(ManagerSend)
    /\ WF_vars(ManagerDeferDone) /\ WF_vars(ManagerDeferStart)
    /\ WF_vars(StoperCloseReadCh) /\ WF_vars(StoperCloseSendCh)
    /\ WF_vars(StoperCloseConn) /\ WF_vars(StoperCloseWorkConnCh)
    /\ WF_vars(StoperDrain) /\ WF_vars(StoperCloseProxies)
    /\ WF_vars(GetWorkConnStep)

\* The session of Spec under a fair scheduler.
FairSpec == Spec /\ Fairness

\* The session of SpecCrash under a fair scheduler; no panic has to happen.
FairSpecCrash == SpecCrash /\ Fairness

\* The sessions of SpecStart under a fair scheduler.
FairSpecStart == SpecStart /\ Fairness

\* The ControlManager under concurrent Add, Del and GetById.
InitCM == CMInit /\ CtlIdle /\ SvcIdle /\ UidIdle /\ AdapterIdle

NextCM ==
    \/ \E c \in Ctls : AddLock(c) /\ UNCHANGED <<ctlVars, svcVars, uidVars, adapterVars>>
    \/ \E c \in Ctls : AddBody(c) /\ UNCHANGED <<ctlVars, svcVars, uidVars, adapterVars>>
    \/ \E c \in Ctls, r \in RunIds : DelLock(c, r) /\ UNCHANGED <<ctlVars, svcVars, uidVars, adapterVars>>
    \/ \E c \in Ctls : DelBody(c) /\ UNCHANGED <<ctlVars, svcVars, uidVars, adapterVars>>
    \/ \E r \in RunIds : GetById(r) /\ UNCHANGED <<ctlVars, svcVars, uidVars, adapterVars>>

SpecCM == InitCM /\ [][NextCM]_vars

\* The client's supervisor while sessions end, logins fail and succeed, and
\* the Service is closed.
InitSvc == CMIdle /\ CtlIdle /\ UidIdle /\ AdapterIdle /\ NewService(MaxDeaths)

NextSvc ==
    \/ \E d \in SessionTimes : SessionDies(d)
    \/ ServiceClose
    \/ KcwReturn
    \/ KcwReconnect
    \/ LoginFail
    \/ LoginOk

SpecSvc == InitSvc /\ [][NextSvc]_vars

\* One call of GetUniqueId on every machine.
InitUid ==
    /\ CMIdle /\ CtlIdle /\ SvcIdle /\ AdapterIdle
    /\ uidInterfaces \in InterfaceLists
    /\ uidOut \in LsOutputs
    /\ uidGuarded \in BOOLEAN
    /\ uidResult = NoResult

NextUid == CallGetUniqueId

SpecUid == InitUid /\ [][NextUid]_vars

(***************************************************************************)
(* Claims about the ControlManager                                         *)
(***************************************************************************)

\* The Controls whose Add(r, _) took the lock, in lock order.
AddsTo(r) == SelectSeq(addOrder, LAMBDA c : loginRunId[c] = r)

\* C2: with no Del so far and no Add inside the lock, the entry of every run id
\* is the Control whose Add took the lock last, a GetById issued after the Adds
\* returned that Control, every Control added earlier under the run id has had
\* Replaced invoked exactly once and the last-added one never.
C2_LastAddWins ==
    (delCount = 0 /\ cmMu = Nil) =>
        \A r \in RunIds :
            LET s == AddsTo(r) IN
            /\ ctlsByRunId[r] = IF s = <<>> THEN Nil ELSE s[Len(s)]
            /\ \A i \in 1..Len(s) :
                  replacedCalls[s[i]] = IF i < Len(s) THEN 1 ELSE 0
            /\ (lastGet[1] = r /\ lastGet[4] = Len(addOrder)) =>
                  /\ lastGet[2] = IF s = <<>> THEN Nil ELSE s[Len(s)]
                  /\ lastGet[3] = (s # <<>>)

\* C2 witness: every Control was added under one run id, concurrently with no
\* Del, and GetById ran after the last Add.
C2_Witness ==
    /\ delCount = 0
    /\ cmMu = Nil
    /\ \A c \in Ctls : addPc[c] = "done" /\ loginRunId[c] = "r1"
    /\ lastGet[1] = "r1"
    /\ lastGet[4] = NumCtls
    /\ lastGet[2] = addOrder[NumCtls]

\* The step is the body of Control c's Del call.
IsDelStep(c) == delPc[c] = "locked" /\ delPc'[c] = "done"

\* C3: Del(runId, ctl) removes the entry of runId only when the stored Control
\* is ctl and otherwise leaves the map unchanged; a Del issued by a Control
\* that a later Add displaced changes nothing; and no other step removes an
\* entry.
C3_DelOnlyIdentical ==
    [][ /\ \A c \in Ctls : IsDelStep(c) =>
              /\ ctlsByRunId' =
                    IF ctlsByRunId[delRunId[c]] = c
                        THEN [ctlsByRunId EXCEPT ![delRunId[c]] = Nil]
                        ELSE ctlsByRunId
              /\ replacedCalls[c] > 0 => ctlsByRunId' = ctlsByRunId
        /\ \A r \in RunIds :
              (ctlsByRunId[r] # Nil /\ ctlsByRunId'[r] = Nil) =>
                  \E c \in Ctls :
                      IsDelStep(c) /\ delRunId[c] = r /\ ctlsByRunId[r] = c
      ]_cmVars

\* C3 witness: a displaced Control has finished its Del under its own run id
\* and its successor is still the entry.
C3_Witness ==
    \E c \in Ctls :
        /\ delPc[c] = "done"
        /\ delRunId[c] = loginRunId[c]
        /\ replacedCalls[c] = 1
        /\ ctlsByRunId[loginRunId[c]] \in Ctls \ {c}

(***************************************************************************)
(* Claims about the teardown of one Control                                *)
(***************************************************************************)

\* C4: once WaitClosed has returned, sendCh, readCh and workConnCh are closed
\* and workConnCh is empty; sendCh is empty when the writer returned on the
\* closed sendCh, and readCh is empty when the manager returned on the closed
\* readCh.
C4_ClosedAndDrained ==
    WaitClosedReturned =>
        /\ sendChClosed /\ readChClosed /\ workConnChClosed
        /\ workConnCh = 0
        /\ writerExit = "closed" => sendCh = <<>>
        /\ mgrExit = "closed" => readCh = <<>>

\* C4 as stated: once WaitClosed has returned the three channels are closed
\* and all three are empty, whatever caused the shutdown.
C4_AllEmpty ==
    WaitClosedReturned =>
        /\ sendChClosed /\ readChClosed /\ workConnChClosed
        /\ sendCh = <<>> /\ readCh = <<>> /\ workConnCh = 0

\* C4 witness: WaitClosed has returned after the writer ended on a write error
\* and the manager on the heartbeat timeout, the client having dialled a work
\* connection; both queues still hold a message.
C4_Witness ==
    /\ WaitClosedReturned
    /\ writerExit = "error" /\ sendCh # <<>>
    /\ mgrExit = "heartbeat" /\ readCh # <<>>
    /\ rwResult = "nil"
    /\ workConnCh = 0

\* C5: once WaitClosed has returned, none of this Control's proxies runs and
\* none is registered in the ProxyManager, then and at every later time.
C5_ProxiesClosedAndDeregistered ==
    WaitClosedReturned => pxyRunning = {} /\ pxyManager = {}

\* C5 witness: WaitClosed has returned for a Control that still owned all its
\* proxies when the stoper's loop ran.
C5_Witness ==
    /\ WaitClosedReturned
    /\ proxies = ProxyNames
    /\ pxyRunning = {} /\ pxyManager = {}

\* C6: with a port quota, portsUsedNum is back at 0 once WaitClosed has
\* returned.
C6_PortsReleased ==
    (WaitClosedReturned /\ maxPortsPerClient > 0) => portsUsedNum = 0

(***************************************************************************)
(* Claims about the work-connection pool                                   *)
(***************************************************************************)

\* The step is a RegisterWorkConn call.
IsRegisterWorkConnStep == connsLeft' = connsLeft - 1

\* C7: RegisterWorkConn can always run to its return; on the open pool it
\* enqueues and returns nil when len(workConnCh) < poolCount + 10, and
\* returns the pool-full error leaving the pool as it was when
\* len(workConnCh) = poolCount + 10; no step takes len(workConnCh) above
\* poolCount + 10.
C7_NeverBlocksNorOverfills ==
    [][ /\ connsLeft > 0 => ENABLED RegisterWorkConn
        /\ workConnCh' <= poolCount + PoolSlack
        /\ (IsRegisterWorkConnStep /\ ~workConnChClosed) =>
              /\ workConnCh < poolCount + PoolSlack =>
                    workConnCh' = workConnCh + 1 /\ rwResult' = "nil"
              /\ workConnCh = poolCount + PoolSlack =>
                    workConnCh' = workConnCh /\ rwResult' = "full"
      ]_vars

\* C7 witness: a RegisterWorkConn call found the open pool full and returned
\* the pool-full error.
C7_Witness ==
    /\ rwResult = "full"
    /\ workConnCh = poolCount + PoolSlack
    /\ ~workConnChClosed

\* C9: a GetWorkConn call that has returned a connection has attempted the
\* replenishing send exactly once, on the hit path and on the miss path.
C9_OneReplenish ==
    (gwPc = "idle" /\ gwResult = "conn") => gwReplenish = 1

\* C9 witness: a GetWorkConn call that missed the pool has returned a
\* connection, its replenishing request the last message on sendCh.
C9_Witness ==
    /\ gwPc = "idle"
    /\ gwResult = "conn"
    /\ ~gwHit
    /\ gwReplenish = 1
    /\ sendCh # <<>>
    /\ sendCh[Len(sendCh)] = ReqWorkConn

(***************************************************************************)
(* Claims about progress                                                   *)
(***************************************************************************)

\* C1: once allShutdown.Start() has been called on a started Control, the
\* stoper eventually reaches allShutdown.Done() and WaitClosed returns.
C1_ShutdownCompletes ==
    (allStart /\ startPc = "done") ~> WaitClosedReturned

\* C8: every GetWorkConn call eventually returns.
C8_GetWorkConnReturns ==
    (gwPc # "idle") ~> (gwPc = "idle")

\* C10: while the manager runs, lastPing is never older than
\* HeartBeatTimeout seconds plus one ticker period.
C10_ExitWithinTickerPeriod ==
    TickerRunning => sinceLastPing <= HeartBeatTimeout + 1

(***************************************************************************)
(* Claims about the manager's handlers                                     *)
(***************************************************************************)

\* The step is the manager receiving a message of kind t from readCh.
IsManagerRecv(t) ==
    /\ mgrPc = "select"
    /\ readCh # <<>>
    /\ Head(readCh).type = t
    /\ readCh' = Tail(readCh)

\* The step is the manager's blocked send of a reply of kind t going through.
IsManagerBlockedSend(t) ==
    mgrPc = "send" /\ mgrOut.type = t /\ mgrPc' # "send"

\* The messages of kind t on a queue.
OfType(q, t) == SelectSeq(q, LAMBDA m : m.type = t)

\* A Pong with Error set iff e is enqueued now, or the manager holds it in
\* its blocked send; after the send the manager returns iff e.
PongReply(e) ==
    \/ /\ sendCh' = Append(sendCh, sendCh'[Len(sendCh')])
       /\ sendCh'[Len(sendCh')].type = "Pong"
       /\ sendCh'[Len(sendCh')].error = e
       /\ mgrPc' = IF e THEN "deferDone" ELSE "select"
    \/ /\ sendCh' = sendCh
       /\ mgrPc' = "send"
       /\ mgrOut'.type = "Pong"
       /\ mgrOut'.error = e
       /\ mgrReturn' = e

\* C11: the manager, on a Ping, either rejects it: lastPing stays, one Pong
\* with Error is enqueued (at once or by the blocked send) and the manager
\* returns, which starts allShutdown; or accepts it: lastPing is now, one Pong
\* without Error is enqueued and the manager goes on.  No other step puts a
\* Pong on sendCh.
C11_PingHandled ==
    [][ /\ IsManagerRecv("Ping") =>
              \/ sinceLastPing' = sinceLastPing /\ PongReply(TRUE)
              \/ sinceLastPing' = 0 /\ PongReply(FALSE)
        /\ IsManagerBlockedSend("Pong") =>
              /\ sendCh' = Append(sendCh, mgrOut)
              /\ mgrPc' = IF mgrOut.error THEN "deferDone" ELSE "select"
              /\ mgrReturn = mgrOut.error
              /\ sinceLastPing' = sinceLastPing
        /\ Len(OfType(sendCh', "Pong")) > Len(OfType(sendCh, "Pong")) =>
              /\ IsManagerRecv("Ping") \/ IsManagerBlockedSend("Pong")
              /\ Len(OfType(sendCh', "Pong")) = Len(OfType(sendCh, "Pong")) + 1
        /\ mgrPc' = "exited" => allStart'
      ]_vars

\* C11 witness: the manager has returned on a rejected Ping whose Pong with
\* Error is on sendCh, allShutdown is started and lastPing is not fresh.
C11_Witness ==
    /\ mgrExit = "ping"
    /\ mgrPc = "exited"
    /\ allStart
    /\ sendCh # <<>>
    /\ sendCh[Len(sendCh)].type = "Pong"
    /\ sendCh[Len(sendCh)].error
    /\ sinceLastPing > 0

(***************************************************************************)
(* Claims about the proxy registry                                         *)
(***************************************************************************)

\* The sum of GetUsedPortsNum() over a set of proxies.
RECURSIVE PortsOf(_)
PortsOf(ps) ==
    IF ps = {} THEN 0
    ELSE LET n == CHOOSE x \in ps : TRUE
         IN  GetUsedPortsNum(n) + PortsOf(ps \ {n})

\* C12: with a port quota, portsUsedNum stays within 0..MaxPortsPerClient, as
\* does what any RegisterProxy call would leave, and until teardown begins it
\* is the sum of the ports of the proxies in the proxies map.
C12_PortsAccounted ==
    maxPortsPerClient > 0 =>
        /\ portsUsedNum \in 0..maxPortsPerClient
        /\ \A n \in ProxyNames, confOk, runOk \in BOOLEAN :
              RegisterProxy(n, confOk, runOk).ports \in 0..maxPortsPerClient
        /\ ~allStart => portsUsedNum = PortsOf(proxies)

\* C12 witness: under a quota of one port proxy a is registered, proxy b was
\* refused (its NewProxyResp with Error is on sendCh), and teardown has not
\* begun.
C12_Witness ==
    /\ maxPortsPerClient = 1
    /\ ~allStart
    /\ proxies = {"a"}
    /\ portsUsedNum = 1
    /\ sendCh # <<>>
    /\ sendCh[Len(sendCh)].type = "NewProxyResp"
    /\ sendCh[Len(sendCh)].name = "b"
    /\ sendCh[Len(sendCh)].error

\* The registry a RegisterProxy outcome leaves.
Registered(res) ==
    [ports |-> res.ports, proxies |-> res.proxies, manager |-> res.manager,
     running |-> res.running]

\* C13: wherever the manager can take a message, for a name that is not
\* registered, a successful RegisterProxy followed by CloseProxy of that name
\* gives back the proxies map, portsUsedNum and the ProxyManager's names; and
\* CloseProxy of a name that is not in the proxies map changes none of them.
C13_RegisterThenClose ==
    \A n \in ProxyNames :
        LET res == RegisterProxy(n, TRUE, TRUE)
        IN  /\ (mgrPc = "select" /\ ~PxyManagerHas(n) /\ res.err = "") =>
                  /\ n \in res.proxies
                  /\ CloseProxyOn(Registered(res), n) = PxyState
            /\ n \notin proxies => CloseProxyResult(n) = PxyState

\* C13 witness: under a port quota the manager has registered proxy a (its
\* NewProxyResp without Error is on sendCh) and then closed it: both messages
\* of the client are consumed and the registry is as at the start.
C13_Witness ==
    /\ maxPortsPerClient > 0
    /\ msgsLeft = 0 /\ readCh = <<>> /\ readerMsg = NoMsg
    /\ mgrPc = "select"
    /\ sendCh # <<>>
    /\ sendCh[Len(sendCh)].type = "NewProxyResp"
    /\ ~sendCh[Len(sendCh)].error
    /\ proxies = {} /\ pxyManager = {} /\ portsUsedNum = 0

\* The reply r to NewProxy{n} is enqueued now, or the manager holds it in its
\* blocked send; the manager goes on either way.
NewProxyReply(r) ==
    \/ /\ sendCh' = Append(sendCh, r)
       /\ mgrPc' = "select"
    \/ /\ sendCh' = sendCh
       /\ mgrPc' = "send"
       /\ mgrOut' = r
       /\ ~mgrReturn'

IsKcwReconnect == kcwPc = "wait" /\ kcwPc' = "login"

\* The sleep claimed for the n-th session death of a window.
SleepForDeath(n) == IF n <= 3 THEN 0 ELSE 2 ^ (n - 4)

\* C16: counting the session deaths since the last window reset, the sleep
\* before the reconnect is 0 seconds for deaths 1, 2 and 3 and 2^(n-4)
\* seconds for death n >= 4.
C16_ReconnectSleeps ==
    [][IsKcwReconnect => outerSleep' = SleepForDeath(deathsInWindow + 1)]_vars

\* The sixth death of a window has been taken and the supervisor slept 4 s.
C16_Witness ==
    /\ kcwPc = "login"
    /\ deathsInWindow = 6
    /\ outerSleep = 4

\* C17: the sleep after the k-th failed login in a row is min(2^(k-1), 20)
\* seconds, delayTime is always one of 1, 2, 4, 8, 16, 20 seconds, and after
\* a successful login the next failed attempt sleeps 1 second.
C17_LoginBackoff ==
    /\ delayTime \in {1, 2, 4, 8, 16, 20}
    /\ kcwPc = "login" /\ fails >= 1 => innerSleep = Min(2 ^ (fails - 1), 20)
    /\ kcwPc = "wait" \/ (kcwPc = "login" /\ fails = 0) => delayTime = 1

\* After a reconnect that succeeded, seven logins in a row have failed and
\* the supervisor slept 20 s after the latest.
C17_Witness ==
    /\ kcwPc = "login"
    /\ svcCtl > 1
    /\ fails = 7
    /\ innerSleep = 20

\* A login of the current reconnect fails.
IsLoginFail == kcwPc = "login" /\ fails' = fails + 1

\* The sleeps between successive login attempts as claimed for an
\* unreachable server: none between the first three attempts, then 1 s, 2 s,
\* 4 s, 8 s, 16 s, 20 s, 20 s.
ClaimedGaps == <<0, 0, 1, 2, 4, 8, 16, 20, 20>>

\* C15 as stated: with the server unreachable after a session died, the
\* sleep between login attempt k and login attempt k+1 is the k-th of
\* 0, 0, 1, 2, 4, 8, 16, 20, 20 seconds.
C15_ThreeImmediateAttempts ==
    kcwPc = "login" /\ fails \in 1..Len(ClaimedGaps)
        => innerSleep = ClaimedGaps[fails]

\* C15, amended: with the server unreachable after a session died, the sleep
\* after the k-th failed login is min(2^(k-1), 20) seconds from the first
\* failure on, and however long the failures last neither schedule is reset:
\* the reconnect count, the reconnect delay and the window stay as they are
\* and delayTime does not go down.
C15_UnreachableSchedule ==
    [][IsLoginFail =>
          /\ innerSleep' = Min(2 ^ fails, 20)
          /\ UNCHANGED <<reconnectCounts, reconnectDelay, deathsInWindow>>
          /\ untilCutoff' <= untilCutoff
          /\ delayTime' >= delayTime]_vars

\* Eight logins in a row have failed, the window's minute is over, and the
\* supervisor is about to try again after its third sleep of 20 s.
C15_Witness ==
    /\ kcwPc = "login"
    /\ fails = 8
    /\ innerSleep = 20
    /\ untilCutoff = -1
    /\ reconnectCounts > 1

\* C18: when the installed ClientControl has fired ClosedDone, the supervisor
\* returns without a further login attempt if exit is set at that moment, and
\* otherwise goes on to log in, leaves the login loop only by installing a
\* new ClientControl as svr.ctl, and waits for that one; it returns only
\* with exit set, and once returned it does nothing more.
C18_SuperviseOrReturn ==
    [][/\ kcwPc = "wait" /\ closedDone => ENABLED (KcwReturn \/ KcwReconnect)
       /\ kcwPc = "wait" /\ kcwPc' # "wait" =>
             /\ closedDone
             /\ IF svcExit # 0
                  THEN kcwPc' = "returned" /\ UNCHANGED <<svcCtl, loginsSinceDone>>
                  ELSE kcwPc' = "login"
       /\ kcwPc = "login" /\ kcwPc' # "login" =>
             /\ kcwPc' = "wait"
             /\ svcCtl' = svcCtl + 1
             /\ ~closedDone'
       /\ kcwPc = "login" => ENABLED LoginOk
       /\ kcwPc' = "returned" => svcExit' # 0
       /\ kcwPc = "returned" =>
             kcwPc' = "returned" /\ UNCHANGED <<svcCtl, loginsSinceDone>>]_vars

\* A reconnect took three login attempts to install the second
\* ClientControl; the Service was then closed and the supervisor returned.
C18_Witness ==
    /\ kcwPc = "returned"
    /\ svcCtl = 2
    /\ loginsSinceDone = 3
    /\ svcExit = 1

(***************************************************************************)
(* Claims about GetUniqueId                                                *)
(***************************************************************************)

\* The names the listing excludes: none when it is unavailable or empty.
ListedNames(out) ==
    IF ContainsNoSuchFile(out) THEN {}
    ELSE {out[i] : i \in 1..Len(out)} \ {""}

\* The hardware addresses of the interfaces that have one and are not listed.
Contributing(interfaces, out) ==
    LET kept == SelectSeq(interfaces,
                    LAMBDA inter : /\ inter.HardwareAddr # <<>>
                                   /\ inter.Name \notin ListedNames(out))
    IN  [i \in 1..Len(kept) |-> kept[i].HardwareAddr]

\* C19: the id is derived from exactly the interfaces that have a hardware
\* address and whose name is not in the listing of virtual interfaces; with
\* the listing unavailable or empty every interface with a hardware address
\* contributes, and an id is produced whenever an interface contributes.
C19_UnlistedContribute ==
    uidResult.returned =>
        /\ uidResult.physical = Contributing(uidInterfaces, uidOut)
        /\ Contributing(uidInterfaces, uidOut) # <<>> => ~uidResult.panic

(***************************************************************************)
(* Claims about the stoper                                                 *)
(***************************************************************************)

\* The positions of the stoper, in the order of its code.
StoperSteps ==
    <<"off", "waitStart", "waitManager", "waitWriter", "waitReader", "drain", "done">>

StoperAt(pc) == CHOOSE i \in 1..Len(StoperSteps) : StoperSteps[i] = pc

\* C20: the stoper takes its steps once each and in order, and only after
\* allShutdown.Start: it closes readCh; once the manager is Done it closes
\* sendCh; once the writer is Done it closes the connection; once the reader
\* is Done it closes workConnCh and every work connection left in it; then it
\* closes and deregisters every proxy of the Control and signals
\* allShutdown.Done.  readCh, sendCh and workConnCh are closed by these steps
\* and by nothing else.
C20_StoperOrder ==
    [][/\ stopPc' # stopPc => StoperAt(stopPc') = StoperAt(stopPc) + 1
       /\ StoperAt(stopPc') >= 3 => allStart'
       /\ readChClosed' <=> StoperAt(stopPc') >= 3
       /\ StoperAt(stopPc') >= 4 => managerDone'
       /\ sendChClosed' <=> StoperAt(stopPc') >= 4
       /\ StoperAt(stopPc') >= 5 => writerDone' /\ connClosed'
       /\ StoperAt(stopPc') >= 6 => readerDone'
       /\ workConnChClosed' <=> StoperAt(stopPc') >= 6
       /\ stopPc' = "done" =>
             /\ workConnCh' = 0
             /\ pxyManager' \cap proxies' = {}
             /\ pxyRunning' \cap proxies' = {}
       /\ allDone' <=> stopPc' = "done"]_vars

\* The stoper has closed workConnCh with a work connection left in it and
\* with a proxy of the Control still registered.
C20_Witness ==
    /\ stopPc = "drain"
    /\ workConnCh > 0
    /\ proxies # {}
    /\ proxies \subseteq pxyManager

(***************************************************************************)
(* Claims about sends on the queues during teardown                        *)
(***************************************************************************)

\* The reader's ctl.readCh <- m finds readCh closed: the message just read,
\* or the one it was blocked on, is sent on a closed channel.
ReaderSendsOnClosed ==
    /\ readChClosed
    /\ readerPc' = "deferDone"
    /\ \/ readerPc = "send"
       \/ readerPc = "read" /\ msgsLeft' # msgsLeft

\* The manager's ctl.sendCh <- resp finds sendCh closed.
ManagerSendsOnClosed ==
    /\ sendChClosed
    /\ mgrPc \in {"select", "send"}
    /\ mgrExit' = "panic"
    /\ mgrExit # "panic"

\* Start is in its primer loop with sendCh closed.
StartSendsOnClosed == sendChClosed /\ startPc = "primers"

\* C21: in no interleaving does the reader send on readCh, or the manager or
\* Start send on sendCh, after the stoper has closed that channel.
C21_NoSendOnClosedQueue ==
    [][/\ ~ReaderSendsOnClosed
       /\ ~ManagerSendsOnClosed
       /\ ~StartSendsOnClosed]_vars

\* The manager's ctl.sendCh <- resp goes through, at once or after a wait.
ManagerEnqueues ==
    /\ Len(sendCh') = Len(sendCh) + 1
    /\ \/ mgrPc = "select" /\ readCh' # readCh
       \/ mgrPc = "send" /\ mgrPc' # "send"

\* C22: the manager never puts a message on sendCh after the writer has
\* exited: wherever the writer has signalled writerShutdown.Done, the manager
\* has signalled its own Done already.
C22_ManagerGoneBeforeWriter ==
    [][/\ writerDone => managerDone
       /\ writerDone => ~ManagerEnqueues]_vars

(***************************************************************************)
(* Claims about failed registrations                                       *)
(***************************************************************************)

\* C23: a RegisterProxy call that returns an error, made where the manager
\* can make it, leaves portsUsedNum, the proxies map and the registrations of
\* the ProxyManager as they were, and leaves no proxy running that was not
\* running before.
C23_FailedRegisterRestores ==
    mgrPc = "select" =>
        \A n \in ProxyNames, confOk \in BOOLEAN, runOk \in BOOLEAN :
            LET res == RegisterProxy(n, confOk, runOk)
            IN  res.err # "" =>
                    /\ res.ports = portsUsedNum
                    /\ res.proxies = proxies
                    /\ res.manager = pxyManager
                    /\ res.running = pxyRunning

\* With a quota of two ports and proxy a registered, a second NewProxy for a
\* ran, was rejected by the ProxyManager and answered with an Error; one port
\* is in use as before.
C23_Witness ==
    /\ maxPortsPerClient = 2
    /\ proxies = {"a"}
    /\ pxyManager = {"a"}
    /\ pxyRunning = {"a"}
    /\ portsUsedNum = 1
    /\ sendCh # <<>>
    /\ Head(sendCh) = NewProxyResp("a", TRUE, "")
    /\ msgsLeft = 0

(***************************************************************************)
(* Claims about panics in the tasks                                        *)
(***************************************************************************)

\* A task has ended in a panic.
Crashed == writerExit = "panic" \/ readerExit = "panic" \/ mgrExit = "panic"

\* C24: a panic in the reader, the writer or the manager ends the task as a
\* return does, with its Done latch signalled and allShutdown started, and
\* the stoper then goes all the way: workConnCh is closed and drained.
C24_CrashStillDrainsPool ==
    /\ [](writerExit = "panic" /\ writerPc = "exited" => writerDone /\ allStart)
    /\ [](readerExit = "panic" /\ readerPc = "exited" => readerDone /\ allStart)
    /\ [](mgrExit = "panic" /\ mgrPc = "exited" => managerDone /\ allStart)
    /\ Crashed ~> (workConnChClosed /\ workConnCh = 0)

(***************************************************************************)
(* Claims about the reconnect window                                       *)
(***************************************************************************)

\* C25: the window is looked at when an outer iteration starts, before the
\* sleep and the increment: a session death that comes after the cutoff
\* starts a new window of a minute with reconnectDelay back at 1 second, and
\* its reconnect follows without a sleep.
C25_ResetBeforeSleep ==
    [][IsKcwReconnect /\ WindowOver(untilCutoff) =>
          /\ outerSleep' = 0
          /\ reconnectDelay' = Second
          /\ untilCutoff' = Minute]_vars

(***************************************************************************)
(* Claims about work connections handed in during teardown                 *)
(***************************************************************************)

\* C26: RegisterWorkConn returns nil only when it has put the connection in
\* workConnCh; a call made after the stoper closed workConnCh returns an
\* error.
C26_NilMeansPooled ==
    [][IsRegisterWorkConnStep =>
          /\ rwResult' = "nil" => workConnCh' = workConnCh + 1
          /\ workConnChClosed => rwResult' # "nil"]_vars

(***************************************************************************)
(* Claims about Control.Start                                              *)
(***************************************************************************)

\* Start has returned: the four tasks are launched and poolCount primers
\* have been put on sendCh.
StartReturned ==
    /\ startPc = "done"
    /\ primerI = poolCount
    /\ writerPc # "off" /\ mgrPc # "off" /\ readerPc # "off" /\ stopPc # "off"

\* C27: Start always returns, with the writer, the manager, the reader and
\* the stoper launched and exactly poolCount primer ReqWorkConn messages
\* enqueued, for every poolCount the configuration allows and also when the
\* writer exits before it has taken a message.
C27_StartReturns ==
    /\ [](startPc = "done" => StartReturned)
    /\ <>StartReturned

(***************************************************************************)
(* Claims about the adapter service                                        *)
(***************************************************************************)

\* C28: when a Control is replaced by a new Control of the same client and
\* the new one registers a proxy, the adapter never receives the old
\* Control's offline after the new Control's online: the last status it
\* holds for the client is online.
C28_OfflineBeforeOnline ==
    \A i \in 1..Len(adapterLog), j \in 1..Len(adapterLog) :
        i < j /\ adapterLog[i].status = "online"
            => adapterLog[j].status # "offline"

(***************************************************************************)
(* Claims about Service.Close and the supervisor                           *)
(***************************************************************************)

\* C29: once Service.Close has completed (exit is set and the installed
\* ClientControl was closed), the service holds no live ClientControl: the
\* installed one is closed, whatever the supervisor was doing when Close
\* ran, its login loop included.
C29_NoLiveControlAfterClose == svcExit # 0 => closedDone

=============================================================================
